---- MODULE Spec2Model ----
(***************************************************************************)
(* Streaming response relay of the medical chatbot backend.                *)
(*                                                                         *)
(* Spec follows ONE client socket and ONE conversation turn from the       *)
(* send_message event to the settlement of the promise returned by         *)
(* RemoteOllamaService.generateResponse, in the two NDJSON variants        *)
(* (src/server.js, first program, and src/unnamed/part_002).               *)
(*                                                                         *)
(* Text is a sequence of one-character strings.  The upstream body is a    *)
(* byte stream made of lines; a JSON object is written "{", fragment       *)
(* characters, an optional "D" (done: true), "}".  Anything else does not  *)
(* parse.  Fallback strings are written with characters of their own; they *)
(* are one character long in the model: that character stands for the      *)
(* whole fixed string (93 to about 250 characters in the source), as a     *)
(* fragment character stands for a run of answer text of any length.       *)
(***************************************************************************)
EXTENDS Integers, Sequences, FiniteSets, TLC

VARIABLES
    variant,        \* which program runs: "server" (src/server.js) or "part_002"
    pc,             \* position of generateResponse: idle, probe, fetch, read, done
    timerArmed,     \* the setTimeout(() => controller.abort()) is pending
    aborted,        \* controller.abort() was called
    elapsed,        \* the timeout duration has elapsed while the call was in flight
    wire,           \* upstream body bytes written and not yet read
    linesWritten,   \* number of lines the upstream has written
    wireClosed,     \* the upstream has written an unterminated last line
    consumed,       \* every byte reader.read() has returned so far
    joined,         \* a line cut by a chunk boundary was completed and decoded
    buffer,         \* let buffer
    fullResponse,   \* let fullResponse
    resolved,       \* <<>> while the promise is pending, <<value>> once resolved
    outcome,        \* path by which the promise settled
    connected,      \* socket.connected
    sockOut,        \* events emitted on the socket, in order
    chatHistory,    \* const chatHistory
    limit,          \* socketRateLimits.get(ip), NoLimit when absent
    windowPassed,   \* now - limit.lastReset > SOCKET_RATE_LIMIT.windowMs
    probeCalls,     \* GET /api/tags requests sent
    generateCalls,  \* POST /api/generate requests sent
    lastMsg,        \* payload of the last send_message event handled
    sends           \* number of send_message events handled

\* the variables of the NDJSON relay and its socket
ndjsonVars == <<variant, pc, timerArmed, aborted, elapsed, wire, linesWritten,
                wireClosed, consumed, joined, buffer, fullResponse, resolved,
                outcome, connected, sockOut, chatHistory, limit, windowPassed,
                probeCalls, generateCalls, lastMsg, sends>>

\* The SSE relay (MedicalOllamaService in src/unnamed/part_000, part_001 and
\* part_003) and its send_message handler
VARIABLES
    sseVariant,     \* which program runs: "part_000", "part_001" or "part_003"
    ssePc,          \* position of generateResponse: idle, fetch, read, done
    sseWire,        \* upstream body bytes written and not yet read
    sseWritten,     \* number of lines the upstream has written
    sseConsumed,    \* every byte reader.read() has returned so far
    sseTorn,        \* some read returned a chunk that ended inside a line
    sseFull,        \* let fullResponse
    sseOut,         \* events emitted on the socket, in order
    sseReturned,    \* <<>> until generateResponse returns, then <<value>>
    sseOutcome,     \* path by which generateResponse ended
    sseUnhandled,   \* a rejection left the send_message handler
    sseCalls,       \* POST /v1/chat/completions requests sent
    sseMsg          \* payload of the send_message event handled

sseVars == <<sseVariant, ssePc, sseWire, sseWritten, sseConsumed, sseTorn,
             sseFull, sseOut, sseReturned, sseOutcome, sseUnhandled, sseCalls,
             sseMsg>>

\* Several turns of the NDJSON relay of src/server.js in flight at once, on
\* one socket or on several
VARIABLES
    cPc,            \* per turn: idle, probe, fetch, read, done
    cSock,          \* per turn: the socket whose send_message started it
    cWire,          \* per turn: upstream body bytes written and not yet read
    cWritten,       \* per turn: number of lines the upstream has written
    cConsumed,      \* per turn: every byte reader.read() has returned
    cBuffer,        \* per turn: let buffer of that call
    cFull,          \* per turn: let fullResponse of that call
    cResolved,      \* per turn: <<>> until the promise settles, then <<value>>
    cOutcome,       \* per turn: path by which the call ended
    cOut            \* per socket: events emitted, each with the turn it is of

concVars == <<cPc, cSock, cWire, cWritten, cConsumed, cBuffer, cFull,
              cResolved, cOutcome, cOut>>

\* The local-fallback relay (MedicalResponseService, second program of
\* src/server.js) and its send_message handler
VARIABLES
    lPc,            \* position of tryOllamaService: idle, fetch, read, done
    lWire,          \* upstream body bytes written and not yet read
    lWritten,       \* number of lines the upstream has written
    lConsumed,      \* every byte reader.read() has returned so far
    lBuffer,        \* let buffer
    lFull,          \* let fullResponse
    lOut,           \* events emitted on the socket, in order
    lResolved,      \* <<>> until the promise settles, then <<value>>
    lOutcome,       \* path by which tryOllamaService ended
    lConnected,     \* socket.connected
    lHistory,       \* chatHistory
    lCalls,         \* POST /api/generate requests sent
    lMsg,           \* payload of the send_message event handled
    lResponse,      \* the text simulateStreaming was called with
    lInterval,      \* the interval of simulateStreaming is set
    lIndex,         \* let index of simulateStreaming
    lDisplayed      \* let displayedText of simulateStreaming

localVars == <<lPc, lWire, lWritten, lConsumed, lBuffer, lFull, lOut,
               lResolved, lOutcome, lConnected, lHistory, lCalls, lMsg,
               lResponse, lInterval, lIndex, lDisplayed>>

\* The registries of src/server.js for the sockets of one IP: the rate-limit
\* record of the IP in socketRateLimits, activeConnections, the block lists
VARIABLES
    rRecord,        \* socketRateLimits.get(ip), NoLimit when there is none
    rAge,           \* now - lastReset: "fresh" (within windowMs), "passed"
                    \* (over windowMs), "stale" (over 2 * windowMs)
    rConnected,     \* ids of the sockets of the IP that are connected
    rAdmitted,      \* ids of the sockets whose handlers were registered
    rActive,        \* keys of activeConnections
    rTimers,        \* ids of the sockets with a deferred disconnect pending
    rBlockedIP,     \* blockedIPs.has(ip)
    rBlockedUsers,  \* keys of blockedUsers
    rNext,          \* id of the next socket that connects
    rNew,           \* number of sockets that have connected in this run
    rSends,         \* number of send_message events handled in this run
    rAccepted,      \* send_message events accepted since the window began
    rLastConnect,   \* how the last connection attempt was answered
    rLastSend       \* how the last send_message was answered by the limit

registryVars == <<rRecord, rAge, rConnected, rAdmitted, rActive, rTimers,
                  rBlockedIP, rBlockedUsers, rNext, rNew, rSends, rAccepted,
                  rLastConnect, rLastSend>>

\* The admin controls of src/server.js (kick, block, unblock, broadcast) over
\* a few client sockets of two IPs, with the turns those sockets have in
\* flight
VARIABLES
    aSeen,          \* ids of the sockets that have connected so far
    aConnected,     \* keys of io.sockets.sockets
    aAdmins,        \* ids of the sockets that presented ADMIN_SECRET
    aHandlers,      \* ids of the sockets whose handlers were registered
    aActive,        \* keys of activeConnections
    aTimers,        \* ids of the sockets with a deferred disconnect pending
    aBlockedUsers,  \* keys of blockedUsers
    aBlockedIPs,    \* keys of blockedIPs
    aHistory,       \* chatHistory.length
    aTurn,          \* per socket: number of the turn in flight, 0 when none
    aTurns,         \* per socket: number of send_message events handled
    aFull,          \* per socket: let fullResponse of the turn in flight
    aOut,           \* per socket: events emitted, in order
    aCalls,         \* calls of generateResponse made so far
    aOps,           \* number of admin operations run so far
    aLast           \* the admin operation the last step ran, NoOp when it
                    \* ran none: operation, target, value returned, how
                    \* the caller reached it, and the block lists as they
                    \* were before it

adminVars == <<aSeen, aConnected, aAdmins, aHandlers, aActive, aTimers,
               aBlockedUsers, aBlockedIPs, aHistory, aTurn, aTurns, aFull,
               aOut, aCalls, aOps, aLast>>

\* chatHistory under addToHistory, in its three versions
VARIABLES
    hVariant,       \* "server" (first program of src/server.js), "local"
                    \* (second program) or "part_002"
    hHistory,       \* const chatHistory
    hEntry,         \* the entry the last call of addToHistory made
    hAdds           \* number of calls of addToHistory in this run

historyVars == <<hVariant, hHistory, hEntry, hAdds>>

\* the variables of the other programs, which each program leaves alone
outsideRelay == <<sseVars, concVars, localVars, registryVars, adminVars,
                  historyVars>>
outsideSse == <<ndjsonVars, concVars, localVars, registryVars, adminVars,
                historyVars>>
outsideConc == <<ndjsonVars, sseVars, localVars, registryVars, adminVars,
                 historyVars>>
outsideLocal == <<ndjsonVars, sseVars, concVars, registryVars, adminVars,
                  historyVars>>
outsideRegistry == <<ndjsonVars, sseVars, concVars, localVars, adminVars,
                     historyVars>>
outsideAdmin == <<ndjsonVars, sseVars, concVars, localVars, registryVars,
                  historyVars>>
outsideHistory == <<ndjsonVars, sseVars, concVars, localVars, registryVars,
                    adminVars>>

vars == <<ndjsonVars, sseVars, concVars, localVars, registryVars, adminVars,
          historyVars>>

-----------------------------------------------------------------------------
(* Bounds *)

MaxLines == 2       \* lines the upstream writes in one body
MaxSends == 2       \* send_message events handled on the socket
MaxSseLines == 3    \* events of an SSE body
MaxConcLines == 2   \* lines of the upstream body of each concurrent turn
MaxLocalLines == 2  \* lines of the upstream body of the local-fallback relay
MaxRegSockets == 2  \* sockets of the IP that connect in one run
MaxRegSends == 2    \* send_message events the sockets of the IP send in one run
MaxWindowSockets == 1   \* sockets of the IP while its message limit is followed
MaxWindowSends == 32    \* send_message events while the message limit is followed
MaxScenarioLines == 3   \* lines of a body made of fragment lines and done lines
MaxAdminOps == 2    \* admin operations run while the admin controls are followed
MaxAdminSends == 1  \* turns of each socket while the admin controls are followed
MaxAdminChunks == 1 \* fragments of each of those turns
MaxHistoryAdds == 3 \* calls of addToHistory while the history is followed

(* Program constants *)

MaxMessageLength == 2000
MaxMessages == 30
MaxConnections == 10
MAX_HISTORY_SIZE == 1000
MAX_HISTORY_SIZE_LOCAL == 500    \* MAX_HISTORY_SIZE of the second program

-----------------------------------------------------------------------------
(* Strings *)

NL == "\n"
WS == " "

RECURSIVE Flatten(_)
Flatten(ss) == IF ss = <<>> THEN <<>> ELSE Head(ss) \o Flatten(Tail(ss))

Last(s) == s[Len(s)]
Front(s) == SubSeq(s, 1, Len(s) - 1)

\* String.prototype.trim
RECURSIVE TrimLeft(_)
TrimLeft(s) == IF s # <<>> /\ Head(s) = WS THEN TrimLeft(Tail(s)) ELSE s
RECURSIVE TrimRight(_)
TrimRight(s) == IF s # <<>> /\ Last(s) = WS THEN TrimRight(Front(s)) ELSE s
Trim(s) == TrimRight(TrimLeft(s))

\* buffer.split('\n')
RECURSIVE SplitNL(_)
SplitNL(s) ==
    IF \A i \in 1..Len(s) : s[i] # NL
    THEN <<s>>
    ELSE LET i == CHOOSE j \in 1..Len(s) :
                      s[j] = NL /\ \A k \in 1..(j - 1) : s[k] # NL
         IN  <<SubSeq(s, 1, i - 1)>> \o SplitNL(SubSeq(s, i + 1, Len(s)))

FragChars == {"a", "b"}

\* JSON.parse(line), with the fields the relay reads: data.response, data.done
NoParse == [ok |-> FALSE, response |-> <<>>, done |-> FALSE]
JSONParse(line) ==
    LET t == Trim(line) IN
    IF Len(t) < 2 \/ Head(t) # "{" \/ Last(t) # "}"
    THEN NoParse
    ELSE LET body == SubSeq(t, 2, Len(t) - 1)
             d    == body # <<>> /\ Last(body) = "D"
             frag == IF d THEN Front(body) ELSE body
         IN  IF \A i \in 1..Len(frag) : frag[i] \in FragChars
             THEN [ok |-> TRUE, response |-> frag, done |-> d]
             ELSE NoParse

-----------------------------------------------------------------------------
(* Events on the socket *)

StreamingResponse(text, partial, complete) ==
    [ev |-> "streaming_response", text |-> text,
     partial |-> partial, complete |-> complete]
ErrorEvent ==
    [ev |-> "error", text |-> <<>>, partial |-> FALSE, complete |-> FALSE]
ChatMessage ==
    [ev |-> "chat_message", text |-> <<>>, partial |-> FALSE, complete |-> FALSE]

\* an emit that is not guarded by socket.connected
EmitAlways(out, conn, e) == Append(out, e)

\* if (socket && socket.connected) socket.emit(...)
EmitIfConnected(out, conn, e) == IF conn THEN Append(out, e) ELSE out

-----------------------------------------------------------------------------
(* Fallback strings *)

Fallback(i) == << <<"f1", "f2", "f3", "f4">>[i] >>
Fallbacks(v) == IF v = "server" THEN {Fallback(i) : i \in 1..4}
                ELSE {Fallback(1)}
AllFallbacks == {Fallback(i) : i \in 1..4}

-----------------------------------------------------------------------------
(* Chat history *)

HistoryEntry(type) == [socketId |-> "s1", type |-> type]

\* chatHistory.push(entry); splice(0, length - MAX_HISTORY_SIZE) when too long
AddToHistory(h, type) ==
    LET pushed == Append(h, HistoryEntry(type)) IN
    IF Len(pushed) > MAX_HISTORY_SIZE
    THEN SubSeq(pushed, Len(pushed) - MAX_HISTORY_SIZE + 1, Len(pushed))
    ELSE pushed

-----------------------------------------------------------------------------
(* Per-IP rate limit record of the socket's IP *)

NoLimit == [present |-> FALSE, messageCount |-> 0, connectionCount |-> 0,
            sockets |-> {}]
Limit(mc, cc, ss) == [present |-> TRUE, messageCount |-> mc,
                      connectionCount |-> cc, sockets |-> ss]

\* checkSocketRateLimit(socket): the verdict and the record it leaves
CheckSocketRateLimit(lim, wp, sid) ==
    IF ~lim.present
    THEN [ok |-> TRUE, limit |-> Limit(0, 1, {sid})]
    ELSE LET l1 == IF wp THEN [lim EXCEPT !.messageCount = 0] ELSE lim
             l2 == IF sid \notin l1.sockets
                   THEN [l1 EXCEPT !.sockets = @ \cup {sid},
                                   !.connectionCount = @ + 1]
                   ELSE l1
         IN  IF l2.connectionCount > MaxConnections
             THEN [ok |-> FALSE, limit |-> l2]
             ELSE IF l2.messageCount >= MaxMessages
             THEN [ok |-> FALSE, limit |-> l2]
             ELSE [ok |-> TRUE,
                   limit |-> [l2 EXCEPT !.messageCount = @ + 1]]

-----------------------------------------------------------------------------
(* send_message payloads: data.message is absent, or a string described by *)
(* its length and the length of its trimmed form.                          *)

Msg(p, l, t) == [present |-> p, len |-> l, trimLen |-> t]
NoMsg == Msg(FALSE, 0, 0)
Messages ==
    { NoMsg,
      Msg(TRUE, 0, 0),
      Msg(TRUE, 3, 0),
      Msg(TRUE, 5, 3),
      Msg(TRUE, MaxMessageLength, MaxMessageLength),
      Msg(TRUE, MaxMessageLength + 1, MaxMessageLength + 1),
      Msg(TRUE, MaxMessageLength + 1, MaxMessageLength - 1) }

\* !data.message || data.message.trim().length === 0
MessageBlank(m) == ~m.present \/ m.len = 0 \/ m.trimLen = 0
\* a length check made on the trimmed message
MessageTooLongTrimmed(m) == m.trimLen > MaxMessageLength

\* data.message.length > 2000
MessageTooLong(m) == m.len > MaxMessageLength
MessageValid(m) == ~MessageBlank(m) /\ ~MessageTooLong(m)

-----------------------------------------------------------------------------
(* Initial state: the socket is connected and admitted, no turn yet *)

\* the SSE programs before any send_message
SseIdle ==
    /\ ssePc = "idle"
    /\ sseWire = <<>>
    /\ sseWritten = 0
    /\ sseConsumed = <<>>
    /\ sseTorn = FALSE
    /\ sseFull = <<>>
    /\ sseOut = <<>>
    /\ sseReturned = <<>>
    /\ sseOutcome = "none"
    /\ sseUnhandled = FALSE
    /\ sseCalls = 0
    /\ sseMsg = NoMsg
    /\ sseVariant = "part_000"

\* two turns in flight at once: the first and the one accepted meanwhile
Turns == {1, 2}
Sockets == {"s1", "s2"}

\* no turn of the concurrent relays has started
ConcIdle ==
    /\ cPc = [t \in Turns |-> "idle"]
    /\ cSock = [t \in Turns |-> "none"]
    /\ cWire = [t \in Turns |-> <<>>]
    /\ cWritten = [t \in Turns |-> 0]
    /\ cConsumed = [t \in Turns |-> <<>>]
    /\ cBuffer = [t \in Turns |-> <<>>]
    /\ cFull = [t \in Turns |-> <<>>]
    /\ cResolved = [t \in Turns |-> <<>>]
    /\ cOutcome = [t \in Turns |-> "none"]
    /\ cOut = [s \in Sockets |-> <<>>]

\* the local-fallback relay at rest
LocalIdle ==
    /\ lPc = "idle"
    /\ lWire = <<>>
    /\ lWritten = 0
    /\ lConsumed = <<>>
    /\ lBuffer = <<>>
    /\ lFull = <<>>
    /\ lOut = <<>>
    /\ lResolved = <<>>
    /\ lOutcome = "none"
    /\ lConnected = TRUE
    /\ lHistory = <<HistoryEntry("user_connected")>>
    /\ lCalls = 0
    /\ lMsg = NoMsg
    /\ lResponse = <<>>
    /\ lInterval = FALSE
    /\ lIndex = 0
    /\ lDisplayed = <<>>

\* no socket of the IP has connected yet
RegistryIdle ==
    /\ rRecord = NoLimit
    /\ rAge = "fresh"
    /\ rConnected = {}
    /\ rAdmitted = {}
    /\ rActive = {}
    /\ rTimers = {}
    /\ rBlockedIP = FALSE
    /\ rBlockedUsers = {}
    /\ rNext = 1
    /\ rNew = 0
    /\ rSends = 0
    /\ rAccepted = 0
    /\ rLastConnect = "none"
    /\ rLastSend = "none"

\* The sockets the admin controls are followed on: a1 and a2 come from one
\* IP and never present ADMIN_SECRET; a3 comes from another IP and is the
\* admin's, it presents the secret. An id is given to one connection only.
AdminIds == {"a1", "a2", "a3"}
AdminIPs == {"ipA", "ipB"}
IPOf(s) == IF s = "a3" THEN "ipB" ELSE "ipA"
PresentsSecret(s) == s = "a3"

\* the admin operation a step ran
Lists(users, ips) == [users |-> users, ips |-> ips]
Ran(op, target, ret, by, before) ==
    [op |-> op, target |-> target, ret |-> ret, by |-> by, before |-> before]
NoOp == Ran("none", "none", FALSE, "none", Lists({}, {}))

AdminIdle ==
    /\ aSeen = {}
    /\ aConnected = {}
    /\ aAdmins = {}
    /\ aHandlers = {}
    /\ aActive = {}
    /\ aTimers = {}
    /\ aBlockedUsers = {}
    /\ aBlockedIPs = {}
    /\ aHistory = 0
    /\ aTurn = [s \in AdminIds |-> 0]
    /\ aTurns = [s \in AdminIds |-> 0]
    /\ aFull = [s \in AdminIds |-> <<>>]
    /\ aOut = [s \in AdminIds |-> <<>>]
    /\ aCalls = 0
    /\ aOps = 0
    /\ aLast = NoOp

HistoryIdle ==
    /\ hVariant = "server"
    /\ hHistory = <<>>
    /\ hEntry = 0
    /\ hAdds = 0

InitLimits ==
    { NoLimit,
      Limit(1, 1, {"s1"}),
      Limit(MaxMessages - 1, 1, {"s1"}),
      Limit(MaxMessages, 1, {"s1"}),
      Limit(1, MaxConnections + 1, {"s1", "s2"}) }

Init ==
    /\ variant \in {"server", "part_002"}
    /\ pc = "idle"
    /\ timerArmed = FALSE
    /\ aborted = FALSE
    /\ elapsed = FALSE
    /\ wire = <<>>
    /\ linesWritten = 0
    /\ wireClosed = FALSE
    /\ consumed = <<>>
    /\ joined = FALSE
    /\ buffer = <<>>
    /\ fullResponse = <<>>
    /\ resolved = <<>>
    /\ outcome = "none"
    /\ connected = TRUE
    /\ sockOut = <<>>
    /\ chatHistory = <<HistoryEntry("user_connected")>>
    /\ limit \in (IF variant = "server" THEN InitLimits ELSE {NoLimit})
    /\ windowPassed = FALSE
    /\ probeCalls = 0
    /\ generateCalls = 0
    /\ lastMsg = NoMsg
    /\ sends = 0
    /\ SseIdle
    /\ ConcIdle
    /\ LocalIdle
    /\ RegistryIdle
    /\ AdminIdle
    /\ HistoryIdle

relayVars == <<timerArmed, aborted, elapsed, wire, linesWritten, wireClosed,
               consumed, joined, buffer, fullResponse, resolved, outcome>>

-----------------------------------------------------------------------------
(* socket.on('send_message') *)

\* the handler is refused by the rate limiter (src/server.js only)
RateLimited(v, rl) == v = "server" /\ ~rl.ok

SendMessage(m) ==
    /\ pc = "idle"
    /\ connected
    /\ sends < MaxSends
    /\ sends' = sends + 1
    /\ lastMsg' = m
    /\ LET rl == CheckSocketRateLimit(limit, windowPassed, "s1") IN
       /\ limit' = IF variant = "server" THEN rl.limit ELSE limit
       /\ windowPassed' = IF variant = "server" THEN FALSE ELSE windowPassed
       /\ IF RateLimited(variant, rl) \/ MessageBlank(m) \/ MessageTooLong(m)
          THEN /\ sockOut' = Append(sockOut, ErrorEvent)
               /\ UNCHANGED <<pc, chatHistory, probeCalls, generateCalls,
                              timerArmed>>
          ELSE /\ chatHistory' = AddToHistory(chatHistory, "user_message")
               /\ IF variant = "server"
                  THEN /\ sockOut' = Append(sockOut, ChatMessage)
                       /\ pc' = "probe"
                       /\ probeCalls' = probeCalls + 1
                       /\ UNCHANGED <<generateCalls, timerArmed>>
                  ELSE /\ sockOut' = sockOut
                       /\ pc' = "fetch"
                       /\ timerArmed' = TRUE
                       /\ generateCalls' = generateCalls + 1
                       /\ UNCHANGED probeCalls
    /\ UNCHANGED <<outsideRelay, variant, aborted, elapsed, wire, linesWritten, wireClosed,
                   consumed, joined, buffer, fullResponse, resolved, outcome,
                   connected>>

\* the rate window of the socket's IP runs out
WindowElapses ==
    /\ variant = "server"
    /\ pc = "idle"
    /\ limit.present
    /\ ~windowPassed
    /\ windowPassed' = TRUE
    /\ UNCHANGED <<outsideRelay, variant, pc, relayVars, connected, sockOut, chatHistory,
                   limit, probeCalls, generateCalls, lastMsg, sends>>

-----------------------------------------------------------------------------
(* RemoteOllamaService.generateResponse *)

Failures == {"probe_failed", "fetch_rejected", "aborted", "http_error",
             "read_error"}

\* a relay that forwards the latest delta instead of the accumulated text
AccumulateDelta(full, response) == response

\* fullResponse += data.response
Accumulate(full, response) == full \o response

\* a line loop in which a line that fails to parse ends the turn
RECURSIVE ProcessLinesBadLineEnds(_, _, _, _)
ProcessLinesBadLineEnds(lines, full, out, conn) ==
    IF lines = <<>>
    THEN [full |-> full, out |-> out, finished |-> FALSE]
    ELSE
      LET line == Head(lines)
          data == JSONParse(line)
      IN
      IF Trim(line) = <<>>
      THEN ProcessLinesBadLineEnds(Tail(lines), full, out, conn)
      ELSE IF ~data.ok
      THEN [full |-> full, out |-> out, finished |-> TRUE]
      ELSE
        LET full1 == IF data.response # <<>>
                     THEN full \o data.response ELSE full
            out1  == IF data.response # <<>>
                     THEN EmitIfConnected(out, conn,
                              StreamingResponse(full1, ~data.done, FALSE))
                     ELSE out
        IN
        IF data.done
        THEN [full |-> full1,
              out |-> EmitIfConnected(out1, conn,
                          StreamingResponse(full1, FALSE, TRUE)),
              finished |-> TRUE]
        ELSE ProcessLinesBadLineEnds(Tail(lines), full1, out1, conn)

\* a line loop that lacks the return after resolve(fullResponse)
RECURSIVE ProcessLinesNoReturn(_, _, _, _)
ProcessLinesNoReturn(lines, full, out, conn) ==
    IF lines = <<>>
    THEN [full |-> full, out |-> out, finished |-> FALSE]
    ELSE
      LET line == Head(lines)
          data == JSONParse(line)
      IN
      IF Trim(line) = <<>> \/ ~data.ok
      THEN ProcessLinesNoReturn(Tail(lines), full, out, conn)
      ELSE
        LET full1 == IF data.response # <<>>
                     THEN full \o data.response ELSE full
            out1  == IF data.response # <<>>
                     THEN EmitIfConnected(out, conn,
                              StreamingResponse(full1, ~data.done, FALSE))
                     ELSE out
            out2  == IF data.done
                     THEN EmitIfConnected(out1, conn,
                              StreamingResponse(full1, FALSE, TRUE))
                     ELSE out1
            rest  == ProcessLinesNoReturn(Tail(lines), full1, out2, conn)
        IN  [rest EXCEPT !.finished = @ \/ data.done]

\* the body of the for loop over the complete lines of one chunk; stops at
\* the first line with data.done (resolve; return)
RECURSIVE ProcessLines(_, _, _, _)
ProcessLines(lines, full, out, conn) ==
    IF lines = <<>>
    THEN [full |-> full, out |-> out, finished |-> FALSE]
    ELSE
      LET line == Head(lines)
          data == JSONParse(line)
      IN
      IF Trim(line) = <<>> \/ ~data.ok
      THEN ProcessLines(Tail(lines), full, out, conn)
      ELSE
        LET full1 == IF data.response # <<>>
                     THEN Accumulate(full, data.response) ELSE full
            out1  == IF data.response # <<>>
                     THEN EmitIfConnected(out, conn,
                              StreamingResponse(full1, ~data.done, FALSE))
                     ELSE out
        IN
        IF data.done
        THEN [full |-> full1,
              out |-> EmitIfConnected(out1, conn,
                          StreamingResponse(full1, FALSE, TRUE)),
              finished |-> TRUE]
        ELSE ProcessLines(Tail(lines), full1, out1, conn)

\* a catch block whose notification lacks complete: true
FallbackEventNotComplete(f) == StreamingResponse(f, FALSE, FALSE)

\* the notification of the catch block
FallbackEvent(f) == StreamingResponse(f, FALSE, TRUE)

\* catch (error): the fallback is emitted when the socket is connected and
\* the promise resolves with it
Catch(f, cause) ==
    /\ f \in Fallbacks(variant)
    /\ sockOut' = EmitIfConnected(sockOut, connected, FallbackEvent(f))
    /\ resolved' = <<f>>
    /\ outcome' = cause
    /\ pc' = "done"

\* clearTimeout(timeout) after the fetch has returned
TimerAfterFetch(armed) == FALSE

\* testOllamaConnection() returns (src/server.js)
ProbeReturns(ok) ==
    /\ pc = "probe"
    /\ IF ok
       THEN /\ pc' = "fetch"
            /\ timerArmed' = TRUE
            /\ generateCalls' = generateCalls + 1
            /\ UNCHANGED <<sockOut, resolved, outcome>>
       ELSE /\ \E f \in Fallbacks(variant) : Catch(f, "probe_failed")
            /\ UNCHANGED <<timerArmed, generateCalls>>
    /\ UNCHANGED <<outsideRelay, variant, aborted, elapsed, wire, linesWritten, wireClosed,
                   consumed, joined, buffer, fullResponse, connected, chatHistory,
                   limit, windowPassed, probeCalls, lastMsg, sends>>

\* the fetch of /api/generate returns a response
FetchReturns(ok) ==
    /\ pc = "fetch"
    /\ ~aborted
    /\ timerArmed' = TimerAfterFetch(timerArmed)
    /\ IF ok
       THEN /\ pc' = "read"
            /\ UNCHANGED <<sockOut, resolved, outcome>>
       ELSE \E f \in Fallbacks(variant) : Catch(f, "http_error")
    /\ UNCHANGED <<outsideRelay, variant, aborted, elapsed, wire, linesWritten, wireClosed,
                   consumed, joined, buffer, fullResponse, connected, chatHistory,
                   limit, windowPassed, probeCalls, generateCalls, lastMsg,
                   sends>>

\* the fetch rejects: connection failure, or AbortError after abort()
FetchRejects ==
    /\ pc = "fetch"
    /\ \E f \in Fallbacks(variant) :
           Catch(f, IF aborted THEN "aborted" ELSE "fetch_rejected")
    /\ UNCHANGED <<outsideRelay, variant, timerArmed, aborted, elapsed, wire, linesWritten,
                   wireClosed, consumed, joined, buffer, fullResponse, connected,
                   chatHistory, limit, windowPassed, probeCalls,
                   generateCalls, lastMsg, sends>>

\* the timeout duration runs out while the call is in flight; the timer
\* callback calls controller.abort() if it is still pending
TimeoutElapses ==
    /\ pc \in {"fetch", "read"}
    /\ ~elapsed
    /\ elapsed' = TRUE
    /\ aborted' = (aborted \/ timerArmed)
    /\ timerArmed' = FALSE
    /\ UNCHANGED <<outsideRelay, variant, pc, wire, linesWritten, wireClosed, consumed, joined,
                   buffer, fullResponse, resolved, outcome, connected,
                   sockOut, chatHistory, limit, windowPassed, probeCalls,
                   generateCalls, lastMsg, sends>>

-----------------------------------------------------------------------------
(* The upstream body *)

LineSet ==
    { <<"{", "a", "}">>,
      <<"{", "b", "D", "}">>,
      <<"{", "D", "}">>,
      <<"x">>,
      <<WS>>,
      <<>> }

\* the upstream writes one more line, newline-terminated or (last) not, of
\* a body of at most max lines
WriteLine(line, terminated, max) ==
    /\ pc = "read"
    /\ ~wireClosed
    /\ linesWritten < max
    /\ terminated \/ line # <<>>
    /\ wire' = wire \o line \o (IF terminated THEN <<NL>> ELSE <<>>)
    /\ linesWritten' = linesWritten + 1
    /\ wireClosed' = ~terminated
    /\ UNCHANGED <<outsideRelay, variant, pc, timerArmed, aborted, elapsed,
                   consumed, joined, buffer, fullResponse, resolved, outcome,
                   connected, sockOut, chatHistory, limit, windowPassed,
                   probeCalls, generateCalls, lastMsg, sends>>

UpstreamWrite(line, terminated) == WriteLine(line, terminated, MaxLines)

\* a relay that forgets the unfinished line at the end of a chunk
CarryNothing(lines) == <<>>

\* buffer = lines.pop() || ''
Carry(lines) == Last(lines)

\* a relay that also decodes the unfinished last segment of the buffer
CompleteLinesAndTail(lines) == lines

\* the lines left in the array after lines.pop(): those a newline has ended
CompleteLines(lines) == Front(lines)

\* reader.read() returns the next k bytes
ReaderRead(k) ==
    /\ pc = "read"
    /\ k \in 1..Len(wire)
    /\ LET chunk == SubSeq(wire, 1, k)
           lines == SplitNL(buffer \o chunk)
           r     == ProcessLines(CompleteLines(lines), fullResponse, sockOut,
                                 connected)
       IN
       /\ wire' = SubSeq(wire, k + 1, Len(wire))
       /\ consumed' = consumed \o chunk
       /\ joined' = (joined \/ (/\ buffer # <<>>
                                /\ Len(lines) >= 2
                                /\ JSONParse(lines[1]).ok
                                /\ JSONParse(lines[1]).response # <<>>))
       /\ buffer' = Carry(lines)
       /\ fullResponse' = r.full
       /\ sockOut' = r.out
       /\ IF r.finished
          THEN /\ resolved' = <<r.full>>
               /\ outcome' = "done_line"
               /\ pc' = "done"
          ELSE UNCHANGED <<resolved, outcome, pc>>
    /\ UNCHANGED <<outsideRelay, variant, timerArmed, aborted, elapsed, linesWritten,
                   wireClosed, connected, chatHistory, limit, windowPassed,
                   probeCalls, generateCalls, lastMsg, sends>>

\* reader.read() returns whatever part of the received bytes is available
ReadAvailable == \E k \in 1..Len(wire) : ReaderRead(k)

\* reader.read() returns done: the body has ended
ReaderDone ==
    /\ pc = "read"
    /\ wire = <<>>
    /\ resolved' = <<fullResponse>>
    /\ outcome' = "stream_end"
    /\ pc' = "done"
    /\ UNCHANGED <<outsideRelay, variant, timerArmed, aborted, elapsed, wire, linesWritten,
                   wireClosed, consumed, joined, buffer, fullResponse, connected,
                   sockOut, chatHistory, limit, windowPassed, probeCalls,
                   generateCalls, lastMsg, sends>>

\* reader.read() rejects: the connection broke while the body was read
ReaderError ==
    /\ pc = "read"
    /\ \E f \in Fallbacks(variant) : Catch(f, "read_error")
    /\ UNCHANGED <<outsideRelay, variant, timerArmed, aborted, elapsed, wire, linesWritten,
                   wireClosed, consumed, joined, buffer, fullResponse, connected,
                   chatHistory, limit, windowPassed, probeCalls,
                   generateCalls, lastMsg, sends>>

\* socket.on('disconnect')
Disconnect ==
    /\ connected
    /\ connected' = FALSE
    /\ chatHistory' = AddToHistory(chatHistory, "user_disconnected")
    /\ UNCHANGED <<outsideRelay, variant, pc, relayVars, sockOut, limit, windowPassed,
                   probeCalls, generateCalls, lastMsg, sends>>

Next ==
    \/ \E m \in Messages : SendMessage(m)
    \/ WindowElapses
    \/ \E ok \in BOOLEAN : ProbeReturns(ok)
    \/ \E ok \in BOOLEAN : FetchReturns(ok)
    \/ FetchRejects
    \/ TimeoutElapses
    \/ \E line \in LineSet, terminated \in BOOLEAN :
           UpstreamWrite(line, terminated)
    \/ ReadAvailable
    \/ ReaderDone
    \/ ReaderError
    \/ Disconnect

Spec == Init /\ [][Next]_vars

\* A turn whose upstream body is made of well-formed lines only: lines with a
\* response fragment and lines {done: true}
ScenarioLines ==
    { <<"{", "a", "}">>,
      <<"{", "b", "}">>,
      <<"{", "D", "}">> }

ScenarioWrite(line) == WriteLine(line, TRUE, MaxScenarioLines)

ScenarioInit == Init /\ ~limit.present

ScenarioNext ==
    \/ SendMessage(Msg(TRUE, 5, 3))
    \/ \E ok \in BOOLEAN : ProbeReturns(ok)
    \/ \E ok \in BOOLEAN : FetchReturns(ok)
    \/ FetchRejects
    \/ TimeoutElapses
    \/ \E line \in ScenarioLines : ScenarioWrite(line)
    \/ ReadAvailable
    \/ ReaderDone
    \/ ReaderError
    \/ Disconnect

ScenarioSpec == ScenarioInit /\ [][ScenarioNext]_vars

\* The upstream may stall at any point: it need not answer, write or close.
\* What the runtime guarantees is that the health probe returns (it has its
\* own 10 s abort), that time passes, that an aborted fetch rejects and that
\* a pending reader.read() returns bytes that have been received.
AbortRejects == aborted /\ FetchRejects

FairSpec ==
    /\ Spec
    /\ WF_vars(\E ok \in BOOLEAN : ProbeReturns(ok))
    /\ WF_vars(TimeoutElapses)
    /\ WF_vars(AbortRejects)
    /\ WF_vars(ReadAvailable)

-----------------------------------------------------------------------------
(* The SSE relay: MedicalOllamaService.generateResponse and its handler *)

\* The text of the upstream body is written with "d" for the prefix
\* 'data: ' and "E" for the sentinel '[DONE]'; the JSON payload of a data
\* line is written as an object line, its fragment being
\* choices[0].delta.content.
DataPrefix == "d"
DoneLine == <<DataPrefix, "E">>

\* the NDJSON relay and its socket at rest
RelayIdle ==
    /\ variant = "server"
    /\ pc = "idle"
    /\ timerArmed = FALSE
    /\ aborted = FALSE
    /\ elapsed = FALSE
    /\ wire = <<>>
    /\ linesWritten = 0
    /\ wireClosed = FALSE
    /\ consumed = <<>>
    /\ joined = FALSE
    /\ buffer = <<>>
    /\ fullResponse = <<>>
    /\ resolved = <<>>
    /\ outcome = "none"
    /\ connected = TRUE
    /\ sockOut = <<>>
    /\ chatHistory = <<HistoryEntry("user_connected")>>
    /\ limit = NoLimit
    /\ windowPassed = FALSE
    /\ probeCalls = 0
    /\ generateCalls = 0
    /\ lastMsg = NoMsg
    /\ sends = 0

SseInit ==
    /\ RelayIdle
    /\ ConcIdle
    /\ LocalIdle
    /\ RegistryIdle
    /\ AdminIdle
    /\ HistoryIdle
    /\ sseVariant \in {"part_000", "part_001", "part_003"}
    /\ ssePc = "idle"
    /\ sseWire = <<>>
    /\ sseWritten = 0
    /\ sseConsumed = <<>>
    /\ sseTorn = FALSE
    /\ sseFull = <<>>
    /\ sseOut = <<>>
    /\ sseReturned = <<>>
    /\ sseOutcome = "none"
    /\ sseUnhandled = FALSE
    /\ sseCalls = 0
    /\ sseMsg = NoMsg

\* payloads of send_message seen by the SSE handlers
SseMessages ==
    { Msg(TRUE, 0, 0),
      Msg(TRUE, 5, 3),
      Msg(TRUE, MaxMessageLength + 1, MaxMessageLength + 1) }

\* socket.on('send_message', async (data) => {
\*     await medicalService.generateResponse(data.message, socket) })
SseSendMessage(m) ==
    /\ ssePc = "idle"
    /\ ssePc' = "fetch"
    /\ sseMsg' = m
    /\ sseCalls' = sseCalls + 1
    /\ UNCHANGED <<outsideSse, sseVariant, sseWire, sseWritten, sseConsumed,
                   sseTorn, sseFull, sseOut, sseReturned, sseOutcome,
                   sseUnhandled>>

\* catch (error) { socket.emit('error', {...}); throw error; }
\* The handler of part_000 and part_003 catches the rejection; the handler
\* of part_001 awaits without a try and leaves it unhandled.
SseCatch(cause) ==
    /\ sseOut' = Append(sseOut, ErrorEvent)
    /\ ssePc' = "done"
    /\ sseOutcome' = cause
    /\ sseUnhandled' = (sseVariant = "part_001")
    /\ UNCHANGED <<sseVariant, sseWire, sseWritten, sseConsumed, sseTorn,
                   sseFull, sseReturned, sseCalls, sseMsg>>

\* await fetch(...) returns; if (!response.ok) throw
SseFetchReturns(ok) ==
    /\ ssePc = "fetch"
    /\ IF ok
       THEN /\ ssePc' = "read"
            /\ UNCHANGED <<sseVariant, sseWire, sseWritten, sseConsumed,
                           sseTorn, sseFull, sseOut, sseReturned, sseOutcome,
                           sseUnhandled, sseCalls, sseMsg>>
       ELSE SseCatch("http_error")
    /\ UNCHANGED outsideSse

\* await fetch(...) rejects
SseFetchRejects ==
    /\ ssePc = "fetch"
    /\ SseCatch("fetch_error")
    /\ UNCHANGED outsideSse

\* lines an upstream body is made of: data lines with a content delta, the
\* sentinel, a data line whose payload is not JSON, a line that is no data
\* line
SseLineSet ==
    { <<DataPrefix, "{", "a", "}">>,
      <<DataPrefix, "{", "b", "}">>,
      DoneLine,
      <<DataPrefix, "x">>,
      <<"x">> }

\* the upstream writes one more event: a line and the blank line that ends it
SseUpstreamWrite(line) ==
    /\ ssePc = "read"
    /\ sseWritten < MaxSseLines
    /\ sseWire' = sseWire \o line \o <<NL, NL>>
    /\ sseWritten' = sseWritten + 1
    /\ UNCHANGED <<outsideSse, sseVariant, ssePc, sseConsumed, sseTorn,
                   sseFull, sseOut, sseReturned, sseOutcome, sseUnhandled,
                   sseCalls, sseMsg>>

\* chunk.split('\n').filter(line => line.trim())
NonBlank(line) == Trim(line) # <<>>
SseLines(chunk) == SelectSeq(SplitNL(chunk), NonBlank)

\* JSON.parse(line.slice(6)).choices?.[0]?.delta?.content, empty when the
\* payload does not parse or has no content
SseContent(line) ==
    LET data == JSONParse(Tail(line)) IN
    IF data.ok THEN data.response ELSE <<>>

\* a loop that does not return at the sentinel
RECURSIVE SseProcessLinesNoReturn(_, _, _)
SseProcessLinesNoReturn(lines, full, out) ==
    IF lines = <<>>
    THEN [full |-> full, out |-> out, finished |-> FALSE]
    ELSE
      LET line == Head(lines) IN
      IF line = DoneLine
      THEN LET r == SseProcessLinesNoReturn(Tail(lines), full,
                        Append(out, StreamingResponse(full, FALSE, TRUE)))
           IN  [r EXCEPT !.finished = TRUE]
      ELSE IF Head(line) = DataPrefix /\ SseContent(line) # <<>>
      THEN LET full1 == Accumulate(full, SseContent(line)) IN
           SseProcessLinesNoReturn(Tail(lines), full1,
               Append(out, StreamingResponse(full1, TRUE, FALSE)))
      ELSE SseProcessLinesNoReturn(Tail(lines), full, out)

\* for (const line of lines) { ... }: the sentinel emits the complete
\* notification and returns; a data line with content appends it and emits
\* {text, partial: true} (no complete field, read as false); any other line
\* is skipped
RECURSIVE SseProcessLines(_, _, _)
SseProcessLines(lines, full, out) ==
    IF lines = <<>>
    THEN [full |-> full, out |-> out, finished |-> FALSE]
    ELSE
      LET line == Head(lines) IN
      IF line = DoneLine
      THEN [full |-> full,
            out |-> Append(out, StreamingResponse(full, FALSE, TRUE)),
            finished |-> TRUE]
      ELSE IF Head(line) = DataPrefix /\ SseContent(line) # <<>>
      THEN LET full1 == Accumulate(full, SseContent(line)) IN
           SseProcessLines(Tail(lines), full1,
               Append(out, StreamingResponse(full1, TRUE, FALSE)))
      ELSE SseProcessLines(Tail(lines), full, out)

\* reader.read() returns the next k bytes; the chunk is split and its lines
\* processed; nothing of the chunk is kept for the next read
SseRead(k) ==
    /\ ssePc = "read"
    /\ k \in 1..Len(sseWire)
    /\ LET chunk == SubSeq(sseWire, 1, k)
           r     == SseProcessLines(SseLines(chunk), sseFull, sseOut)
       IN
       /\ sseWire' = SubSeq(sseWire, k + 1, Len(sseWire))
       /\ sseConsumed' = sseConsumed \o chunk
       /\ sseTorn' = (sseTorn \/ Last(chunk) # NL)
       /\ sseFull' = r.full
       /\ sseOut' = r.out
       /\ IF r.finished
          THEN /\ ssePc' = "done"
               /\ sseOutcome' = "done_line"
               /\ sseReturned' = <<r.full>>
          ELSE UNCHANGED <<ssePc, sseOutcome, sseReturned>>
    /\ UNCHANGED <<outsideSse, sseVariant, sseWritten, sseUnhandled,
                   sseCalls, sseMsg>>

SseReadAvailable == \E k \in 1..Len(sseWire) : SseRead(k)

\* reader.read() reports done: break; return fullResponse
SseReaderDone ==
    /\ ssePc = "read"
    /\ sseWire = <<>>
    /\ ssePc' = "done"
    /\ sseOutcome' = "stream_end"
    /\ sseReturned' = <<sseFull>>
    /\ UNCHANGED <<outsideSse, sseVariant, sseWire, sseWritten, sseConsumed,
                   sseTorn, sseFull, sseOut, sseUnhandled, sseCalls, sseMsg>>

\* reader.read() rejects
SseReaderError ==
    /\ ssePc = "read"
    /\ SseCatch("read_error")
    /\ UNCHANGED outsideSse

SseNext ==
    \/ \E m \in SseMessages : SseSendMessage(m)
    \/ \E ok \in BOOLEAN : SseFetchReturns(ok)
    \/ SseFetchRejects
    \/ \E line \in SseLineSet : SseUpstreamWrite(line)
    \/ SseReadAvailable
    \/ SseReaderDone
    \/ SseReaderError

SseSpec == SseInit /\ [][SseNext]_vars

-----------------------------------------------------------------------------
(* Concurrent turns of the NDJSON relay (src/server.js) *)

\* the events a turn emits, marked with the turn that emitted them
Tagged(t, events) == [k \in 1..Len(events) |-> [turn |-> t, e |-> events[k]]]

ConcInit ==
    /\ RelayIdle /\ SseIdle /\ ConcIdle /\ LocalIdle /\ RegistryIdle
    /\ AdminIdle /\ HistoryIdle

\* socket.on('send_message'): the handler is async and holds no lock or
\* in-flight flag for its socket; a valid message (the rate limit, 30 a
\* minute, is not reached by two messages) is echoed and generateResponse
\* is called with the socket. The first turn is on socket s1, the second on
\* the same socket or on another.
ConcSendMessage(t, s) ==
    /\ cPc[t] = "idle"
    /\ \A u \in Turns : u < t => cPc[u] # "idle"
    /\ t = 1 => s = "s1"
    /\ cPc' = [cPc EXCEPT ![t] = "probe"]
    /\ cSock' = [cSock EXCEPT ![t] = s]
    /\ cOut' = [cOut EXCEPT ![s] = @ \o Tagged(t, <<ChatMessage>>)]
    /\ UNCHANGED <<outsideConc, cWire, cWritten, cConsumed, cBuffer, cFull,
                   cResolved, cOutcome>>

\* testOllamaConnection() returned true; the fetch is sent
ConcProbeReturns(t) ==
    /\ cPc[t] = "probe"
    /\ cPc' = [cPc EXCEPT ![t] = "fetch"]
    /\ UNCHANGED <<outsideConc, cSock, cWire, cWritten, cConsumed, cBuffer,
                   cFull, cResolved, cOutcome, cOut>>

\* the fetch returned a response with response.ok
ConcFetchReturns(t) ==
    /\ cPc[t] = "fetch"
    /\ cPc' = [cPc EXCEPT ![t] = "read"]
    /\ UNCHANGED <<outsideConc, cSock, cWire, cWritten, cConsumed, cBuffer,
                   cFull, cResolved, cOutcome, cOut>>

\* catch (error): the probe failed, the fetch failed or was aborted, the
\* status was not ok or the read failed; the fallback goes to the socket of
\* the turn and the promise resolves with it
ConcCatch(t, f) ==
    /\ cPc[t] \in {"probe", "fetch", "read"}
    /\ f \in Fallbacks("server")
    /\ cOut' = [cOut EXCEPT ![cSock[t]] =
                   @ \o Tagged(t, EmitIfConnected(<<>>, TRUE, FallbackEvent(f)))]
    /\ cResolved' = [cResolved EXCEPT ![t] = <<f>>]
    /\ cOutcome' = [cOutcome EXCEPT ![t] = "failed"]
    /\ cPc' = [cPc EXCEPT ![t] = "done"]
    /\ UNCHANGED <<outsideConc, cSock, cWire, cWritten, cConsumed, cBuffer,
                   cFull>>

ConcLineSet ==
    { <<"{", "a", "}">>,
      <<"{", "D", "}">> }

\* the upstream of turn t writes one more line of its body
ConcUpstreamWrite(t, line) ==
    /\ cPc[t] = "read"
    /\ cWritten[t] < MaxConcLines
    /\ cWire' = [cWire EXCEPT ![t] = @ \o line \o <<NL>>]
    /\ cWritten' = [cWritten EXCEPT ![t] = @ + 1]
    /\ UNCHANGED <<outsideConc, cPc, cSock, cConsumed, cBuffer, cFull,
                   cResolved, cOutcome, cOut>>

\* a buffer that all calls would share
StoreBufferShared(bufs, t, v) == [u \in DOMAIN bufs |-> v]

\* buffer = lines.pop(), buffer being a let of the call
StoreBuffer(bufs, t, v) == [bufs EXCEPT ![t] = v]

\* reader.read() of turn t returns the next k bytes of its own body
ConcReaderRead(t, k) ==
    /\ cPc[t] = "read"
    /\ k \in 1..Len(cWire[t])
    /\ LET chunk == SubSeq(cWire[t], 1, k)
           lines == SplitNL(cBuffer[t] \o chunk)
           r     == ProcessLines(CompleteLines(lines), cFull[t], <<>>, TRUE)
       IN
       /\ cWire' = [cWire EXCEPT ![t] = SubSeq(@, k + 1, Len(@))]
       /\ cConsumed' = [cConsumed EXCEPT ![t] = @ \o chunk]
       /\ cBuffer' = StoreBuffer(cBuffer, t, Carry(lines))
       /\ cFull' = [cFull EXCEPT ![t] = r.full]
       /\ cOut' = [cOut EXCEPT ![cSock[t]] = @ \o Tagged(t, r.out)]
       /\ IF r.finished
          THEN /\ cResolved' = [cResolved EXCEPT ![t] = <<r.full>>]
               /\ cOutcome' = [cOutcome EXCEPT ![t] = "done_line"]
               /\ cPc' = [cPc EXCEPT ![t] = "done"]
          ELSE UNCHANGED <<cResolved, cOutcome, cPc>>
    /\ UNCHANGED <<outsideConc, cSock, cWritten>>

\* reader.read() of turn t returns done
ConcReaderDone(t) ==
    /\ cPc[t] = "read"
    /\ cWire[t] = <<>>
    /\ cResolved' = [cResolved EXCEPT ![t] = <<cFull[t]>>]
    /\ cOutcome' = [cOutcome EXCEPT ![t] = "stream_end"]
    /\ cPc' = [cPc EXCEPT ![t] = "done"]
    /\ UNCHANGED <<outsideConc, cSock, cWire, cWritten, cConsumed, cBuffer,
                   cFull, cOut>>

ConcNext ==
    \E t \in Turns :
        \/ \E s \in Sockets : ConcSendMessage(t, s)
        \/ ConcProbeReturns(t)
        \/ ConcFetchReturns(t)
        \/ \E f \in Fallbacks("server") : ConcCatch(t, f)
        \/ \E line \in ConcLineSet : ConcUpstreamWrite(t, line)
        \/ \E k \in 1..Len(cWire[t]) : ConcReaderRead(t, k)
        \/ ConcReaderDone(t)

ConcSpec == ConcInit /\ [][ConcNext]_vars

-----------------------------------------------------------------------------
(* The local-fallback relay: MedicalResponseService (second program of
   src/server.js) *)

LocalInit ==
    /\ RelayIdle /\ SseIdle /\ ConcIdle /\ LocalIdle /\ RegistryIdle
    /\ AdminIdle /\ HistoryIdle

\* texts of MEDICAL_RESPONSES: words separated by single spaces, a word being
\* one symbol
SP == " "
LocalResponses ==
    { <<"w1">>,
      <<"w1", SP, "w2">> }

\* response.split(' ')
RECURSIVE SplitSP(_)
SplitSP(s) ==
    IF \A i \in 1..Len(s) : s[i] # SP
    THEN <<s>>
    ELSE LET i == CHOOSE j \in 1..Len(s) :
                      s[j] = SP /\ \A k \in 1..(j - 1) : s[k] # SP
         IN  <<SubSeq(s, 1, i - 1)>> \o SplitSP(SubSeq(s, i + 1, Len(s)))

\* payloads of send_message seen by the handler
LocalMessages ==
    { Msg(TRUE, 0, 0),
      Msg(TRUE, 5, 3),
      Msg(TRUE, MaxMessageLength + 1, MaxMessageLength + 1) }

\* socket.on('send_message'): a blank message is answered by 'error'; any
\* other message, whatever its length, is echoed, recorded and passed to
\* generateResponse, whose tryOllamaService sends the fetch
LocalSendMessage(m) ==
    /\ lPc = "idle"
    /\ lConnected
    /\ lMsg = NoMsg
    /\ lMsg' = m
    /\ IF MessageBlank(m)
       THEN /\ lOut' = Append(lOut, ErrorEvent)
            /\ UNCHANGED <<lPc, lHistory, lCalls>>
       ELSE /\ lOut' = Append(lOut, ChatMessage)
            /\ lHistory' = AddToHistory(lHistory, "user_message")
            /\ lPc' = "fetch"
            /\ lCalls' = lCalls + 1
    /\ UNCHANGED <<outsideLocal, lWire, lWritten, lConsumed, lBuffer, lFull,
                   lResolved, lOutcome, lConnected, lResponse, lInterval,
                   lIndex, lDisplayed>>

\* generateLocalResponse picks a text r; when the socket is connected
\* simulateStreaming(r, socket) sets its interval; resolve(r)
LocalAnswer(r) ==
    /\ r \in LocalResponses
    /\ lResolved' = <<r>>
    /\ lPc' = "done"
    /\ IF lConnected
       THEN /\ lResponse' = r
            /\ lInterval' = TRUE
            /\ lIndex' = 0
            /\ lDisplayed' = <<>>
       ELSE UNCHANGED <<lResponse, lInterval, lIndex, lDisplayed>>

\* tryOllamaService returned null: catch (error) { return null }
TryFails(cause) ==
    /\ lOutcome' = cause
    /\ \E r \in LocalResponses : LocalAnswer(r)

\* if (ollamaResponse): the empty string is falsy
Truthy(value) == value # <<>>

\* tryOllamaService returned fullResponse: if (ollamaResponse) resolve it,
\* otherwise answer locally
TryReturns(value, cause) ==
    /\ lOutcome' = cause
    /\ IF Truthy(value)
       THEN /\ lResolved' = <<value>>
            /\ lPc' = "done"
            /\ UNCHANGED <<lResponse, lInterval, lIndex, lDisplayed>>
       ELSE \E r \in LocalResponses : LocalAnswer(r)

\* the fetch returns; clearTimeout; if (!response.ok) throw
LocalFetchReturns(ok) ==
    /\ lPc = "fetch"
    /\ IF ok
       THEN /\ lPc' = "read"
            /\ UNCHANGED <<lResolved, lOutcome, lResponse, lInterval, lIndex,
                           lDisplayed>>
       ELSE TryFails("http_error")
    /\ UNCHANGED <<outsideLocal, lWire, lWritten, lConsumed, lBuffer, lFull,
                   lOut, lConnected, lHistory, lCalls, lMsg>>

\* the fetch rejects: connection failure, or abort() after 30 s
LocalFetchRejects ==
    /\ lPc = "fetch"
    /\ TryFails("fetch_rejected")
    /\ UNCHANGED <<outsideLocal, lWire, lWritten, lConsumed, lBuffer, lFull,
                   lOut, lConnected, lHistory, lCalls, lMsg>>

\* the upstream writes one more newline-terminated line of its body
LocalUpstreamWrite(line) ==
    /\ lPc = "read"
    /\ lWritten < MaxLocalLines
    /\ lWire' = lWire \o line \o <<NL>>
    /\ lWritten' = lWritten + 1
    /\ UNCHANGED <<outsideLocal, lPc, lConsumed, lBuffer, lFull, lOut,
                   lResolved, lOutcome, lConnected, lHistory, lCalls, lMsg,
                   lResponse, lInterval, lIndex, lDisplayed>>

\* reader.read() returns the next k bytes: same loop as the NDJSON relay; a
\* line with done returns fullResponse
LocalReaderRead(k) ==
    /\ lPc = "read"
    /\ k \in 1..Len(lWire)
    /\ LET chunk == SubSeq(lWire, 1, k)
           lines == SplitNL(lBuffer \o chunk)
           r     == ProcessLines(CompleteLines(lines), lFull, lOut, lConnected)
       IN
       /\ lWire' = SubSeq(lWire, k + 1, Len(lWire))
       /\ lConsumed' = lConsumed \o chunk
       /\ lBuffer' = Carry(lines)
       /\ lFull' = r.full
       /\ lOut' = r.out
       /\ IF r.finished
          THEN TryReturns(r.full, "done_line")
          ELSE UNCHANGED <<lPc, lResolved, lOutcome, lResponse, lInterval,
                           lIndex, lDisplayed>>
    /\ UNCHANGED <<outsideLocal, lWritten, lConnected, lHistory, lCalls, lMsg>>

\* reader.read() returns done: break; return fullResponse
LocalReaderDone ==
    /\ lPc = "read"
    /\ lWire = <<>>
    /\ TryReturns(lFull, "stream_end")
    /\ UNCHANGED <<outsideLocal, lWire, lWritten, lConsumed, lBuffer, lFull,
                   lOut, lConnected, lHistory, lCalls, lMsg>>

\* reader.read() rejects
LocalReaderError ==
    /\ lPc = "read"
    /\ TryFails("read_error")
    /\ UNCHANGED <<outsideLocal, lWire, lWritten, lConsumed, lBuffer, lFull,
                   lOut, lConnected, lHistory, lCalls, lMsg>>

\* displayedText += words[index] + ' '
Displayed(text, word) == text \o word \o <<SP>>

\* the interval of simulateStreaming fires: the next word is shown in a
\* partial notification, or, the words being used up, the interval is
\* cleared and the complete notification carries the response
SimulateTick ==
    /\ lInterval
    /\ LET words == SplitSP(lResponse) IN
       IF lIndex < Len(words)
       THEN /\ lDisplayed' = Displayed(lDisplayed, words[lIndex + 1])
            /\ lOut' = Append(lOut, StreamingResponse(lDisplayed', TRUE, FALSE))
            /\ lIndex' = lIndex + 1
            /\ UNCHANGED lInterval
       ELSE /\ lInterval' = FALSE
            /\ lOut' = Append(lOut, StreamingResponse(lResponse, FALSE, TRUE))
            /\ UNCHANGED <<lIndex, lDisplayed>>
    /\ UNCHANGED <<outsideLocal, lPc, lWire, lWritten, lConsumed, lBuffer,
                   lFull, lResolved, lOutcome, lConnected, lHistory, lCalls,
                   lMsg, lResponse>>

\* socket.on('disconnect')
LocalDisconnect ==
    /\ lConnected
    /\ lConnected' = FALSE
    /\ lHistory' = AddToHistory(lHistory, "user_disconnected")
    /\ UNCHANGED <<outsideLocal, lPc, lWire, lWritten, lConsumed, lBuffer,
                   lFull, lOut, lResolved, lOutcome, lCalls, lMsg, lResponse,
                   lInterval, lIndex, lDisplayed>>

LocalNext ==
    \/ \E m \in LocalMessages : LocalSendMessage(m)
    \/ \E ok \in BOOLEAN : LocalFetchReturns(ok)
    \/ LocalFetchRejects
    \/ \E line \in LineSet : LocalUpstreamWrite(line)
    \/ \E k \in 1..Len(lWire) : LocalReaderRead(k)
    \/ LocalReaderDone
    \/ LocalReaderError
    \/ SimulateTick
    \/ LocalDisconnect

LocalSpec == LocalInit /\ [][LocalNext]_vars

-----------------------------------------------------------------------------
(* The registries of src/server.js: connections, rate limits, block lists *)

\* The sockets of one IP are followed. The other clients (the admin among
\* them) act through the admin operations. What the handlers emit and the
\* relay they start are followed in the specifications above.

\* sockets 1..MaxConnections of the IP connected within one window and were
\* admitted; all of them, or all but the last, have disconnected since
KnownSockets == 1..MaxConnections

RegistryBusy ==
    /\ rRecord = Limit(MaxConnections - 1, MaxConnections, KnownSockets)
    /\ rAge = "fresh"
    /\ rConnected \in {{}, {MaxConnections}}
    /\ rAdmitted = KnownSockets
    /\ rActive = rConnected
    /\ rTimers = {}
    /\ rBlockedIP = FALSE
    /\ rBlockedUsers = {}
    /\ rNext = MaxConnections + 1
    /\ rNew = 0
    /\ rSends = 0
    /\ rAccepted = 0
    /\ rLastConnect = "admitted"
    /\ rLastSend = "none"

RegistryInit ==
    /\ RelayIdle /\ SseIdle /\ ConcIdle /\ LocalIdle
    /\ AdminIdle /\ HistoryIdle
    /\ RegistryIdle \/ RegistryBusy

\* The id of the socket that connects next. Once the record counts more
\* connections than the limit every new socket is refused whatever its id
\* and is never heard of again, so those sockets are given the one id 0.
RefusedId == 0
NextId ==
    IF rRecord.present /\ rRecord.connectionCount > MaxConnections
    THEN RefusedId ELSE rNext

\* why checkSocketRateLimit returned what it did
Verdict(rl) ==
    IF rl.ok THEN "ok"
    ELSE IF rl.limit.connectionCount > MaxConnections THEN "connections"
    ELSE "messages"

\* checkSocketRateLimit starts a window when it creates the record or resets
\* the counter: lastReset = now
StartsWindow == ~rRecord.present \/ rAge # "fresh"

\* io.on('connection'): the rate-limit check, then the block check, then the
\* registration in activeConnections and of the handlers
RegConnectUpTo(max) ==
    /\ NextId = RefusedId \/ rNew < max
    /\ LET id == NextId
           rl == CheckSocketRateLimit(rRecord, rAge # "fresh", id)
       IN
       /\ rRecord' = rl.limit
       /\ rAge' = IF StartsWindow THEN "fresh" ELSE rAge
       /\ rAccepted' = IF StartsWindow THEN 0 ELSE rAccepted
       /\ IF id = RefusedId
          THEN UNCHANGED <<rNext, rNew>>
          ELSE rNext' = rNext + 1 /\ rNew' = rNew + 1
       /\ IF ~rl.ok
          THEN /\ rLastConnect' = Verdict(rl)
               /\ UNCHANGED <<rConnected, rAdmitted, rActive, rTimers>>
          ELSE IF rBlockedIP \/ id \in rBlockedUsers
          THEN /\ rLastConnect' = "blocked"
               /\ rConnected' = rConnected \cup {id}
               /\ rTimers' = rTimers \cup {id}
               /\ UNCHANGED <<rAdmitted, rActive>>
          ELSE /\ rLastConnect' = "admitted"
               /\ rConnected' = rConnected \cup {id}
               /\ rAdmitted' = rAdmitted \cup {id}
               /\ rActive' = rActive \cup {id}
               /\ UNCHANGED rTimers
    /\ UNCHANGED <<outsideRegistry, rBlockedIP, rBlockedUsers, rSends,
                   rLastSend>>

RegConnect == RegConnectUpTo(MaxRegSockets)

\* socket.on('send_message') of an admitted socket: the rate-limit check
RegSendUpTo(s, max) ==
    /\ s \in rAdmitted \cap rConnected
    /\ rSends < max
    /\ rSends' = rSends + 1
    /\ LET rl == CheckSocketRateLimit(rRecord, rAge # "fresh", s) IN
       /\ rRecord' = rl.limit
       /\ rAge' = IF StartsWindow THEN "fresh" ELSE rAge
       /\ rLastSend' = Verdict(rl)
       /\ rAccepted' = (IF StartsWindow THEN 0 ELSE rAccepted)
                       + (IF rl.ok THEN 1 ELSE 0)
    /\ UNCHANGED <<outsideRegistry, rConnected, rAdmitted, rActive, rTimers,
                   rBlockedIP, rBlockedUsers, rNext, rNew, rLastConnect>>

RegSend(s) == RegSendUpTo(s, MaxRegSends)

\* a disconnect handler that leaves the key in place
RemoveKeyNever(keys, s) == keys

\* activeConnections.delete(socket.id)
RemoveKey(keys, s) == keys \ {s}

\* the socket disconnects; socket.on('disconnect') runs when the handlers
\* were registered. The record of the IP is left as it is.
RegDisconnect(s) ==
    /\ s \in rConnected
    /\ rConnected' = rConnected \ {s}
    /\ rActive' = IF s \in rAdmitted THEN RemoveKey(rActive, s) ELSE rActive
    /\ UNCHANGED <<outsideRegistry, rRecord, rAge, rAdmitted, rTimers,
                   rBlockedIP, rBlockedUsers, rNext, rNew, rSends, rAccepted,
                   rLastConnect, rLastSend>>

\* adminControls.kickUser(s) for a socket that is found: the disconnect is
\* deferred by a timer
RegKick(s) ==
    /\ s \in rConnected
    /\ rTimers' = rTimers \cup {s}
    /\ UNCHANGED <<outsideRegistry, rRecord, rAge, rConnected, rAdmitted,
                   rActive, rBlockedIP, rBlockedUsers, rNext, rNew, rSends,
                   rAccepted, rLastConnect, rLastSend>>

\* adminControls.blockUser(s) for a connected socket: the id is blocked and,
\* when the socket is in activeConnections, its IP too, and the disconnect
\* is deferred by a timer
RegBlock(s) ==
    /\ s \in rConnected
    /\ rBlockedUsers' = rBlockedUsers \cup {s}
    /\ IF s \in rActive
       THEN /\ rBlockedIP' = TRUE
            /\ rTimers' = rTimers \cup {s}
       ELSE UNCHANGED <<rBlockedIP, rTimers>>
    /\ UNCHANGED <<outsideRegistry, rRecord, rAge, rConnected, rAdmitted,
                   rActive, rNext, rNew, rSends, rAccepted, rLastConnect,
                   rLastSend>>

\* adminControls.unblockUser(ip)
RegUnblockIP ==
    /\ rBlockedIP
    /\ rBlockedIP' = FALSE
    /\ UNCHANGED <<outsideRegistry, rRecord, rAge, rConnected, rAdmitted,
                   rActive, rTimers, rBlockedUsers, rNext, rNew, rSends,
                   rAccepted, rLastConnect, rLastSend>>

\* the timer of a kick, of a block or of a refused blocked connection fires:
\* targetSocket.disconnect(true), which runs the disconnect handler, and
\* activeConnections.delete(socketId)
RegTimer(s) ==
    /\ s \in rTimers
    /\ rTimers' = rTimers \ {s}
    /\ rConnected' = rConnected \ {s}
    /\ rActive' = RemoveKey(rActive, s)
    /\ UNCHANGED <<outsideRegistry, rRecord, rAge, rAdmitted, rBlockedIP,
                   rBlockedUsers, rNext, rNew, rSends, rAccepted,
                   rLastConnect, rLastSend>>

\* time passes: the window of the record runs out, then twice the window
RegTime ==
    /\ rRecord.present
    /\ rAge # "stale"
    /\ rAge' = IF rAge = "fresh" THEN "passed" ELSE "stale"
    /\ UNCHANGED <<outsideRegistry, rRecord, rConnected, rAdmitted, rActive,
                   rTimers, rBlockedIP, rBlockedUsers, rNext, rNew, rSends,
                   rAccepted, rLastConnect, rLastSend>>

\* the cleanup interval finds now - lastReset > 2 * windowMs and deletes the
\* record
RegCleanup ==
    /\ rRecord.present
    /\ rAge = "stale"
    /\ rRecord' = NoLimit
    /\ UNCHANGED <<outsideRegistry, rAge, rConnected, rAdmitted, rActive,
                   rTimers, rBlockedIP, rBlockedUsers, rNext, rNew, rSends,
                   rAccepted, rLastConnect, rLastSend>>

RegistryNext ==
    \/ RegConnect
    \/ \E s \in rConnected : RegSend(s)
    \/ \E s \in rConnected : RegDisconnect(s)
    \/ \E s \in rConnected : RegKick(s)
    \/ \E s \in rConnected : RegBlock(s)
    \/ RegUnblockIP
    \/ \E s \in rTimers : RegTimer(s)
    \/ RegTime
    \/ RegCleanup

RegistrySpec == RegistryInit /\ [][RegistryNext]_vars

\* Time passes and the cleanup interval fires; whether and when clients
\* connect, send or disconnect is up to them.
RegistryFairSpec ==
    /\ RegistrySpec
    /\ WF_vars(RegTime)
    /\ WF_vars(RegCleanup)

-----------------------------------------------------------------------------
(* The message limit of one IP over a whole window *)

WindowInit ==
    /\ RelayIdle /\ SseIdle /\ ConcIdle /\ LocalIdle
    /\ AdminIdle /\ HistoryIdle
    /\ RegistryIdle

WindowNext ==
    \/ RegConnectUpTo(MaxWindowSockets)
    \/ \E s \in rConnected : RegSendUpTo(s, MaxWindowSends)
    \/ RegTime
    \/ RegCleanup

WindowSpec == WindowInit /\ [][WindowNext]_vars

-----------------------------------------------------------------------------
(* The admin controls of src/server.js: kick, block, unblock, broadcast *)

\* The rate-limit records are followed in RegistrySpec; here the verdict of
\* checkSocketRateLimit is an input of the handlers that ask for it. The
\* messages sent are valid ones and a client waits for the end of its turn
\* before it sends again.

AdminInit ==
    /\ RelayIdle /\ SseIdle /\ ConcIdle /\ LocalIdle /\ RegistryIdle
    /\ AdminIdle /\ HistoryIdle

\* what blockUser, unblockUser and kickUser may be called with: the HTTP
\* routes and the admin events pass on any string of the request
Targets == AdminIds \cup AdminIPs

\* chatHistory.length after addToHistory: the entries themselves are
\* followed in HistorySpec
LengthAfterAdd(n) == IF n + 1 > MAX_HISTORY_SIZE THEN MAX_HISTORY_SIZE ELSE n + 1

\* an event on a socket with the turn it belongs to, 0 when it belongs to none
Of(t, e) == [turn |-> t, e |-> e]

\* the streaming_response of kickUser ("K"), blockUser ("B") and
\* broadcastToAll ("M"): partial: false, complete: true
AdminNotice(text) == StreamingResponse(<<text>>, FALSE, TRUE)
AdminChat == Of(0, ChatMessage)
Welcome == [ev |-> "welcome", text |-> <<>>, partial |-> FALSE,
            complete |-> FALSE]
Announcement == [ev |-> "admin_announcement", text |-> <<>>,
                 partial |-> FALSE, complete |-> FALSE]
\* socket.emit on socket s
EmitTo(out, s, events) == [out EXCEPT ![s] = @ \o events]

\* a block check that looks at the socket id only
IsUserBlockedByIdOnly(s, ips, users) == s \in users

\* adminControls.isUserBlocked(socket)
IsUserBlocked(s, ips, users) == IPOf(s) \in ips \/ s \in users

\* io.on('connection'): the rate-limit check, the block check, then the
\* registration of the socket and of its handlers; the admin handlers when
\* the handshake carries ADMIN_SECRET
AdminConnect(s, ok) ==
    /\ s \notin aSeen
    /\ aSeen' = aSeen \cup {s}
    /\ aLast' = NoOp
    /\ IF ~ok
       THEN /\ aOut' = EmitTo(aOut, s, <<Of(0, ErrorEvent)>>)
            /\ UNCHANGED <<aConnected, aAdmins, aHandlers, aActive, aTimers,
                           aHistory>>
       ELSE IF IsUserBlocked(s, aBlockedIPs, aBlockedUsers)
       THEN /\ aOut' = EmitTo(aOut, s, <<AdminChat>>)
            /\ aConnected' = aConnected \cup {s}
            /\ aTimers' = aTimers \cup {s}
            /\ UNCHANGED <<aAdmins, aHandlers, aActive, aHistory>>
       ELSE /\ aConnected' = aConnected \cup {s}
            /\ aActive' = aActive \cup {s}
            /\ aHistory' = LengthAfterAdd(aHistory)
            /\ aHandlers' = aHandlers \cup {s}
            /\ aAdmins' = IF PresentsSecret(s) THEN aAdmins \cup {s}
                           ELSE aAdmins
            /\ aOut' = EmitTo(aOut, s,
                   <<Of(0, Welcome)>>
                   \o (IF PresentsSecret(s) THEN <<Of(0, [Welcome EXCEPT
                                               !.ev = "admin_welcome"])>>
                       ELSE <<>>))
            /\ UNCHANGED aTimers
    /\ UNCHANGED <<outsideAdmin, aBlockedUsers, aBlockedIPs, aTurn, aTurns,
                   aFull, aCalls, aOps>>

\* socket.on('send_message') with a valid message: the rate-limit check, the
\* echo, the history entry and the call of generateResponse
AdminSend(s, ok) ==
    /\ s \in aHandlers \cap aConnected
    /\ aTurn[s] = 0
    /\ aTurns[s] < MaxAdminSends
    /\ aTurns' = [aTurns EXCEPT ![s] = @ + 1]
    /\ aLast' = NoOp
    /\ IF ~ok
       THEN /\ aOut' = EmitTo(aOut, s, <<Of(0, ErrorEvent)>>)
            /\ UNCHANGED <<aTurn, aFull, aCalls, aHistory>>
       ELSE /\ aOut' = EmitTo(aOut, s, <<Of(aTurns'[s], ChatMessage)>>)
            /\ aHistory' = LengthAfterAdd(aHistory)
            /\ aTurn' = [aTurn EXCEPT ![s] = aTurns'[s]]
            /\ aFull' = [aFull EXCEPT ![s] = <<>>]
            /\ aCalls' = aCalls + 1
    /\ UNCHANGED <<outsideAdmin, aSeen, aConnected, aAdmins, aHandlers,
                   aActive, aTimers, aBlockedUsers, aBlockedIPs, aOps>>

\* generateResponse takes one line of the upstream body: a fragment, the
\* done flag, or both; the notifications are emitted when the socket is
\* connected
AdminTurnLine(s, response, done) ==
    /\ aTurn[s] # 0
    /\ response \/ done
    /\ response => Len(aFull[s]) < MaxAdminChunks
    /\ LET full == IF response THEN aFull[s] \o <<"a">> ELSE aFull[s]
           events ==
               (IF response
                THEN <<Of(aTurn[s], StreamingResponse(full, ~done, FALSE))>>
                ELSE <<>>)
               \o (IF done
                   THEN <<Of(aTurn[s], StreamingResponse(full, FALSE, TRUE))>>
                   ELSE <<>>)
       IN
       /\ aFull' = [aFull EXCEPT ![s] = full]
       /\ aOut' = IF s \in aConnected THEN EmitTo(aOut, s, events) ELSE aOut
       /\ aTurn' = IF done THEN [aTurn EXCEPT ![s] = 0] ELSE aTurn
    /\ aLast' = NoOp
    /\ UNCHANGED <<outsideAdmin, aSeen, aConnected, aAdmins, aHandlers,
                   aActive, aTimers, aBlockedUsers, aBlockedIPs, aHistory,
                   aTurns, aCalls, aOps>>

\* the catch block of generateResponse: the fallback is the complete
\* notification of the turn
AdminTurnFails(s) ==
    /\ aTurn[s] # 0
    /\ aOut' = IF s \in aConnected
               THEN EmitTo(aOut, s, <<Of(aTurn[s], FallbackEvent(Fallback(1)))>>)
               ELSE aOut
    /\ aTurn' = [aTurn EXCEPT ![s] = 0]
    /\ aLast' = NoOp
    /\ UNCHANGED <<outsideAdmin, aSeen, aConnected, aAdmins, aHandlers,
                   aActive, aTimers, aBlockedUsers, aBlockedIPs, aHistory,
                   aTurns, aFull, aCalls, aOps>>

\* the disconnect handler of a socket whose handlers were registered
OnDisconnect(s, connectedSet, handlers, active, history) ==
    IF s \in connectedSet /\ s \in handlers
    THEN [active |-> active \ {s},
          history |-> LengthAfterAdd(history)]
    ELSE [active |-> active, history |-> history]

\* the client closes the socket
AdminDisconnect(s) ==
    /\ s \in aConnected
    /\ LET d == OnDisconnect(s, aConnected, aHandlers, aActive, aHistory) IN
       /\ aActive' = d.active
       /\ aHistory' = d.history
    /\ aConnected' = aConnected \ {s}
    /\ aLast' = NoOp
    /\ UNCHANGED <<outsideAdmin, aSeen, aAdmins, aHandlers, aTimers,
                   aBlockedUsers, aBlockedIPs, aTurn, aTurns, aFull, aOut,
                   aCalls, aOps>>

\* the timer of kickUser, of blockUser or of a refused blocked connection
\* fires: targetSocket.disconnect(true), then activeConnections.delete
AdminTimer(s) ==
    /\ s \in aTimers
    /\ aTimers' = aTimers \ {s}
    /\ LET d == OnDisconnect(s, aConnected, aHandlers, aActive, aHistory) IN
       /\ aActive' = d.active \ {s}
       /\ aHistory' = d.history
    /\ aConnected' = aConnected \ {s}
    /\ aLast' = NoOp
    /\ UNCHANGED <<outsideAdmin, aSeen, aAdmins, aHandlers, aBlockedUsers,
                   aBlockedIPs, aTurn, aTurns, aFull, aOut, aCalls, aOps>>

\* who can run an admin operation: a connected socket that presented
\* ADMIN_SECRET when it connected (the admin events are registered on those
\* sockets only)
AdminSockets == aAdmins \cap aConnected

\* The value an operation returns goes back to the caller, as an
\* admin_action_result on the admin socket or as the HTTP response: it is
\* kept in aLast.

\* adminControls.kickUser(t), from the admin_kick_user event
AdminKick(by, t) ==
    /\ by \in AdminSockets
    /\ aOps < MaxAdminOps
    /\ aOps' = aOps + 1
    /\ LET found == t \in aConnected IN
       /\ aLast' = Ran("kickUser", t, found, "socket",
                       Lists(aBlockedUsers, aBlockedIPs))
       /\ IF found
          THEN /\ aOut' = EmitTo(aOut, t,
                                  <<AdminChat, Of(0, AdminNotice("K"))>>)
               /\ aTimers' = aTimers \cup {t}
               /\ aHistory' = LengthAfterAdd(aHistory)
          ELSE UNCHANGED <<aOut, aTimers, aHistory>>
    /\ UNCHANGED <<outsideAdmin, aSeen, aConnected, aAdmins, aHandlers,
                   aActive, aBlockedUsers, aBlockedIPs, aTurn, aTurns, aFull,
                   aCalls>>

\* a blockUser that leaves the IP of the socket alone
BlockedIPsAfterNoIP(ips, t, registered) == ips

\* blockedIPs.set(userInfo.ip, ...) when the target is connected and
\* registered in activeConnections
BlockedIPsAfter(ips, t, registered) ==
    IF registered THEN ips \cup {IPOf(t)} ELSE ips

\* adminControls.blockUser(t), from the admin_block_user and
\* admin_manual_block events (by is the admin socket) and from
\* POST /api/admin/block-user (by is "http"), which asks for no secret
AdminBlock(by, t) ==
    /\ by \in AdminSockets \cup {"http"}
    /\ aOps < MaxAdminOps
    /\ aOps' = aOps + 1
    /\ LET registered == t \in aConnected /\ t \in aActive IN
       /\ aBlockedUsers' = aBlockedUsers \cup {t}
       /\ aBlockedIPs' = BlockedIPsAfter(aBlockedIPs, t, registered)
       /\ aOut' = IF registered
                  THEN EmitTo(aOut, t, <<AdminChat, Of(0, AdminNotice("B"))>>)
                  ELSE aOut
       /\ aTimers' = IF registered THEN aTimers \cup {t} ELSE aTimers
    /\ aHistory' = LengthAfterAdd(aHistory)
    /\ aLast' = Ran("blockUser", t, TRUE,
                    IF by = "http" THEN "http" ELSE "socket",
                    Lists(aBlockedUsers, aBlockedIPs))
    /\ UNCHANGED <<outsideAdmin, aSeen, aConnected, aAdmins, aHandlers,
                   aActive, aTurn, aTurns, aFull, aCalls>>

\* an unblockUser that also lifts the block of the IP the blocked socket
\* came from
UnblockedIPsWithIPOf(ips, t) ==
    ips \ {t, IF t \in AdminIds THEN IPOf(t) ELSE t}

\* blockedIPs.delete(socketIdOrIP)
UnblockedIPs(ips, t) == ips \ {t}

\* adminControls.unblockUser(t), from the admin_unblock event and from
\* POST /api/admin/unblock, which asks for no secret
AdminUnblock(by, t) ==
    /\ by \in AdminSockets \cup {"http"}
    /\ aOps < MaxAdminOps
    /\ aOps' = aOps + 1
    /\ LET unblocked == t \in aBlockedUsers \/ t \in aBlockedIPs IN
       /\ aBlockedUsers' = aBlockedUsers \ {t}
       /\ aBlockedIPs' = UnblockedIPs(aBlockedIPs, t)
       /\ aHistory' = IF unblocked
                      THEN LengthAfterAdd(aHistory)
                      ELSE aHistory
       /\ aLast' = Ran("unblockUser", t, unblocked,
                       IF by = "http" THEN "http" ELSE "socket",
                       Lists(aBlockedUsers, aBlockedIPs))
    /\ UNCHANGED <<outsideAdmin, aSeen, aConnected, aAdmins, aHandlers,
                   aActive, aTimers, aTurn, aTurns, aFull, aOut, aCalls>>

\* adminControls.broadcastToAll, from the admin_broadcast event: the
\* message goes as a chat_message and as a complete streaming_response to
\* every connected socket of activeConnections, then io.emit sends the
\* announcement to every connected socket
AdminBroadcast(by) ==
    /\ by \in AdminSockets
    /\ aOps < MaxAdminOps
    /\ aOps' = aOps + 1
    /\ aOut' = [s \in AdminIds |->
                      aOut[s]
                      \o (IF s \in aActive /\ s \in aConnected
                          THEN <<AdminChat, Of(0, AdminNotice("M"))>>
                          ELSE <<>>)
                      \o (IF s \in aConnected
                          THEN <<Of(0, Announcement)>> ELSE <<>>)]
    /\ aHistory' = LengthAfterAdd(aHistory)
    /\ aLast' = Ran("broadcastToAll", "all", TRUE, "socket",
                    Lists(aBlockedUsers, aBlockedIPs))
    /\ UNCHANGED <<outsideAdmin, aSeen, aConnected, aAdmins, aHandlers,
                   aActive, aTimers, aBlockedUsers, aBlockedIPs, aTurn,
                   aTurns, aFull, aCalls>>

\* the registries under the admin operations, no message being sent
AdminNext ==
    \/ \E s \in AdminIds, ok \in BOOLEAN : AdminConnect(s, ok)
    \/ \E s \in AdminIds : AdminDisconnect(s)
    \/ \E s \in AdminIds : AdminTimer(s)
    \/ \E by \in AdminIds, t \in Targets : AdminKick(by, t)
    \/ \E by \in AdminIds \cup {"http"}, t \in Targets : AdminBlock(by, t)
    \/ \E by \in AdminIds \cup {"http"}, t \in Targets : AdminUnblock(by, t)
    \/ \E by \in AdminIds : AdminBroadcast(by)

AdminSpec == AdminInit /\ [][AdminNext]_vars

\* The turns of the client socket a1 under the admin operations that the
\* admin socket a3 and the HTTP routes run on it
TurnIds == {"a1", "a3"}

AdminTurnNext ==
    \/ \E s \in TurnIds : AdminConnect(s, TRUE)
    \/ \E ok \in BOOLEAN : AdminSend("a1", ok)
    \/ \E response, done \in BOOLEAN : AdminTurnLine("a1", response, done)
    \/ AdminTurnFails("a1")
    \/ \E s \in TurnIds : AdminDisconnect(s)
    \/ \E s \in TurnIds : AdminTimer(s)
    \/ AdminKick("a3", "a1")
    \/ \E by \in {"a3", "http"} : AdminBlock(by, "a1")
    \/ \E by \in {"a3", "http"} : AdminUnblock(by, "a1")
    \/ AdminBroadcast("a3")

AdminTurnSpec == AdminInit /\ [][AdminTurnNext]_vars

-----------------------------------------------------------------------------
(* chatHistory under addToHistory *)

\* An entry is told from the others by the rank of the call of addToHistory
\* that made it, kept as its id; it has a type.
Entry(id, type) == [id |-> id, type |-> type]
EntryTypes == {"user_message", "ai_response", "admin_action"}

\* MAX_HISTORY_SIZE of each program
HistoryMax(v) == IF v = "local" THEN MAX_HISTORY_SIZE_LOCAL
                 ELSE MAX_HISTORY_SIZE

\* a trim that keeps the oldest entries
PushSpliceNewest(h, e, max) ==
    LET pushed == Append(h, e) IN
    IF Len(pushed) > max THEN SubSeq(pushed, 1, max) ELSE pushed

\* first program of src/server.js and part_002: chatHistory.push(entry);
\* if (length > MAX_HISTORY_SIZE) splice(0, length - MAX_HISTORY_SIZE)
PushSplice(h, e, max) ==
    LET pushed == Append(h, e) IN
    IF Len(pushed) > max
    THEN SubSeq(pushed, Len(pushed) - max + 1, Len(pushed))
    ELSE pushed

\* second program of src/server.js: chatHistory.push(entry);
\* if (length > MAX_HISTORY_SIZE) shift()
PushShift(h, e, max) ==
    LET pushed == Append(h, e) IN
    IF Len(pushed) > max THEN Tail(pushed) ELSE pushed

\* the history holds no entry, or is one entry short of full, or full
HistoryInit ==
    /\ RelayIdle /\ SseIdle /\ ConcIdle /\ LocalIdle /\ RegistryIdle
    /\ AdminIdle
    /\ hVariant \in {"server", "local", "part_002"}
    /\ hEntry \in {0, HistoryMax(hVariant) - 1, HistoryMax(hVariant)}
    /\ hHistory = [i \in 1..hEntry |-> Entry(i, "user_message")]
    /\ hAdds = 0

\* addToHistory(socketId, type, content)
HistoryAdd(type) ==
    /\ hAdds < MaxHistoryAdds
    /\ hAdds' = hAdds + 1
    /\ hEntry' = hEntry + 1
    /\ hHistory' = IF hVariant = "local"
                   THEN PushShift(hHistory, Entry(hEntry', type),
                                  HistoryMax(hVariant))
                   ELSE PushSplice(hHistory, Entry(hEntry', type),
                                   HistoryMax(hVariant))
    /\ UNCHANGED <<outsideHistory, hVariant>>

HistoryNext == \E type \in EntryTypes : HistoryAdd(type)

HistorySpec == HistoryInit /\ [][HistoryNext]_vars

-----------------------------------------------------------------------------
(* Observations *)

IsStreaming(e) == e.ev = "streaming_response"
IsComplete(e) == e.ev = "streaming_response" /\ e.complete
IsSnapshot(e) == e.ev = "streaming_response" /\ ~e.complete

\* the streaming_response events of the turn, in order of emission
Notifications == SelectSeq(sockOut, IsStreaming)
Completes == SelectSeq(sockOut, IsComplete)
Snapshots == SelectSeq(sockOut, IsSnapshot)

Settled == pc = "done"
Failed == outcome \in Failures

\* Reference decoding of the bytes read so far, taken as one piece: the
\* response fragments of the newline-terminated lines that parse, up to and
\* including the first line with done
RECURSIVE FragmentsOf(_)
FragmentsOf(lines) ==
    IF lines = <<>> THEN <<>>
    ELSE LET data == JSONParse(Head(lines))
             here == IF data.ok /\ data.response # <<>>
                     THEN <<data.response>> ELSE <<>>
         IN  IF data.ok /\ data.done THEN here
             ELSE here \o FragmentsOf(Tail(lines))

UpstreamFragments == FragmentsOf(Front(SplitNL(consumed)))

\* f1, f1 f2, ..., f1 ... fk
Cumulative(frags) ==
    [k \in 1..Len(frags) |-> Flatten(SubSeq(frags, 1, k))]

-----------------------------------------------------------------------------
(* Properties *)

\* C1: among the streaming_response events of a turn at most one has
\* complete=true, and it is the last one: none is emitted after it.
C1_CompleteIsLast ==
    \A i \in 1..Len(Notifications) :
        Notifications[i].complete => i = Len(Notifications)

\* C1 witness: a turn that sent snapshots, then its complete notification
C1_Witness ==
    /\ Settled
    /\ Len(Snapshots) >= 1
    /\ Len(Completes) = 1

\* C2: every accepted turn whose socket stays connected receives exactly
\* one streaming_response with complete=true, whatever the upstream did;
\* stated on the settled turn.
C2_ExactlyOneComplete ==
    (Settled /\ connected) => Len(Completes) = 1

\* C3: when the upstream call fails the promise resolves (never rejects)
\* with one of the configured fallback strings, and a connected socket
\* receives exactly one complete=true notification, the last one, carrying
\* that same string (a socket that is gone receives nothing).
C3_FallbackOnFailure ==
    Failed =>
        /\ Settled
        /\ Len(resolved) = 1
        /\ resolved[1] \in Fallbacks(variant)
        /\ connected =>
              /\ Len(Completes) = 1
              /\ Completes[1].text = resolved[1]
              /\ Notifications[Len(Notifications)] = Completes[1]

\* C3 witness: the body read fails after a snapshot was sent, socket connected
C3_Witness ==
    /\ outcome = "read_error"
    /\ connected
    /\ Len(Snapshots) >= 1

\* C4: the length of text is non-decreasing across the successive
\* streaming_response events of a turn, failures after snapshots included.
C4_TextLengthMonotone ==
    \A i \in 1..Len(Notifications) : \A j \in i..Len(Notifications) :
        Len(Notifications[i].text) <= Len(Notifications[j].text)

\* C5: the k-th snapshot carries the concatenation, in upstream order, of
\* the first k response fragments of the lines read (never the delta), its
\* partial flag is set, and a socket that stayed connected has received one
\* snapshot per fragment processed.
C5_SnapshotsAreCumulative ==
    LET expected == Cumulative(UpstreamFragments) IN
    /\ Len(Snapshots) <= Len(expected)
    /\ \A k \in 1..Len(Snapshots) : Snapshots[k].text = expected[k]
    /\ \A k \in 1..Len(Snapshots) :
           Snapshots[k].partial \/ (k = Len(expected) /\ outcome = "done_line")
    /\ connected => Len(Snapshots) = Len(expected)

\* C5 witness: two fragments were relayed, the second snapshot carries both
C5_Witness ==
    /\ Len(Snapshots) = 2
    /\ Len(Snapshots[2].text) = 2
    /\ Snapshots[2].partial

\* C6: the promise of an accepted turn eventually settles, also when the
\* upstream accepts the request and then sends nothing more.
C6_EventuallySettles ==
    [](pc \in {"probe", "fetch", "read"} => <>Settled)

\* C7: a body that ends without a done line is a success: the promise
\* resolves with the accumulated text, never a fallback, and a connected
\* socket receives one complete=true notification carrying that text.
C7_StreamEndCompletes ==
    outcome = "stream_end" =>
        /\ resolved = <<fullResponse>>
        /\ resolved[1] \notin AllFallbacks
        /\ connected =>
              /\ Len(Completes) = 1
              /\ Completes[1].text = fullResponse

\* C8: a call that exceeds the timeout is aborted and ends on the fallback
\* path, with the fallback notification as the last one of the turn.
C8_TimeoutTakesFallbackPath ==
    elapsed =>
        /\ aborted
        /\ Settled =>
              /\ outcome = "aborted"
              /\ resolved[1] \in Fallbacks(variant)
              /\ connected => Notifications[Len(Notifications)]
                                  = FallbackEvent(resolved[1])

\* C9: the timeout is armed at both suspension points: while the relay waits
\* for the response headers and while it waits for a body chunk, until the
\* timeout duration has elapsed.
C9_TimerArmedWhileWaiting ==
    (pc \in {"fetch", "read"} /\ ~elapsed) => timerArmed

SendStep == sends' = sends + 1

\* C10: a send_message whose message is missing, empty, whitespace-only or
\* longer than 2000 characters produces exactly one 'error' event and
\* nothing else: no streaming_response, no history entry, no upstream call.
C10_InvalidMessageRejected ==
    [][(SendStep /\ (\/ ~lastMsg'.present
                      \/ lastMsg'.len = 0
                      \/ lastMsg'.trimLen = 0
                      \/ lastMsg'.len > MaxMessageLength))
          => /\ sockOut' = Append(sockOut, ErrorEvent)
             /\ chatHistory' = chatHistory
             /\ probeCalls' = probeCalls
             /\ generateCalls' = generateCalls
             /\ pc' = "idle"]_vars

\* C10 witness: an over-long message whose trimmed form is within the limit
\* has been answered by an error event
C10_Witness ==
    /\ sends = 1
    /\ lastMsg = Msg(TRUE, MaxMessageLength + 1, MaxMessageLength - 1)
    /\ sockOut = <<ErrorEvent>>
    /\ pc = "idle"

-----------------------------------------------------------------------------
(* Properties of the NDJSON relay: framing, malformed lines, disconnection *)

\* the newline-terminated lines among the bytes read, and what follows them
LinesRead == Front(SplitNL(consumed))
TailRead == Last(SplitNL(consumed))

TextsOf(events) == [k \in 1..Len(events) |-> events[k].text]

Parses(line) == JSONParse(line).ok
HasDone(line) == JSONParse(line).ok /\ JSONParse(line).done

\* C11: the accumulated text, the carried buffer and the notification texts
\* are functions of the bytes read alone: they are what decoding those bytes
\* in one piece gives, wherever the chunk boundaries fell.
C11_ChunkingIndependent ==
    /\ fullResponse = Flatten(UpstreamFragments)
    /\ outcome # "done_line" => buffer = TailRead
    /\ connected => TextsOf(Snapshots) = Cumulative(UpstreamFragments)

\* C11 witness: a line that arrived in two chunks was decoded and the turn
\* has settled with its text
C11_Witness ==
    /\ joined
    /\ Settled
    /\ fullResponse # <<>>
    /\ resolved = <<fullResponse>>

\* C13: a line that fails to parse is skipped: the text is that of the
\* lines that parse, no notification is sent for it, and the turn ends only
\* on a line with done, on the end of the body or on a connection-level
\* error; a connection-level error ends the turn with a fallback.
C13_BadLineSkipped ==
    /\ fullResponse = Flatten(FragmentsOf(SelectSeq(LinesRead, Parses)))
    /\ Len(Snapshots) <= Len(FragmentsOf(SelectSeq(LinesRead, Parses)))
    /\ Failed => (Settled /\ resolved[1] \in Fallbacks(variant))
    /\ Settled =>
           \/ /\ outcome = "done_line"
              /\ \E i \in 1..Len(LinesRead) : HasDone(LinesRead[i])
           \/ /\ outcome = "stream_end"
              /\ wire = <<>>
           \/ Failed

\* C13 witness: a malformed line was read, then a well-formed one whose
\* fragment was accumulated, and the turn goes on
C13_Witness ==
    /\ pc = "read"
    /\ LinesRead = << <<"x">>, <<"{", "a", "}">> >>
    /\ fullResponse = <<"a">>

\* C14: when the body ends in the middle of a line the relay does not fail,
\* it resolves with the text of the newline-terminated lines, and every
\* notification carries fragments of newline-terminated lines only.
C14_UnterminatedTailIgnored ==
    (TailRead # <<>> /\ ~Failed) =>
        /\ \A i \in 1..Len(Notifications) :
               \/ Notifications[i].text = <<>>
               \/ \E k \in 1..Len(UpstreamFragments) :
                      Notifications[i].text = Cumulative(UpstreamFragments)[k]
        /\ outcome = "stream_end" =>
               resolved = <<Flatten(FragmentsOf(LinesRead))>>

\* C14 witness: the body ended after a complete line and an unterminated
\* well-formed object; only the first was accumulated
C14_Witness ==
    /\ outcome = "stream_end"
    /\ TailRead = <<"{", "a", "}">>
    /\ resolved = << <<"a">> >>
    /\ connected

\* C17: once the socket is disconnected nothing more is emitted on it, the
\* relay keeps accumulating the text, and when the turn settles the promise
\* is resolved: with the accumulated text on success, with a fallback string
\* on failure.
C17_DisconnectedSocketSkipped ==
    /\ [](~connected =>
            /\ fullResponse = Flatten(UpstreamFragments)
            /\ Settled =>
                  /\ Len(resolved) = 1
                  /\ Failed => resolved[1] \in Fallbacks(variant)
                  /\ ~Failed => resolved[1] = fullResponse)
    /\ [][~connected => sockOut' = sockOut]_vars

\* C17 witness: the socket went away before the first fragment, the text
\* was accumulated all the same and the promise resolved with it
C17_Witness ==
    /\ ~connected
    /\ outcome = "done_line"
    /\ fullResponse # <<>>
    /\ Notifications = <<>>

\* C18: when the socket disconnects while its turn is in flight the
\* upstream call is aborted (the relay does not go on reading the body).
C18_DisconnectCancels ==
    (~connected /\ pc \in {"fetch", "read"}) => aborted

\* C15: fragment lines f1..fn followed by a line {done: true} yield, on a
\* connected socket, exactly n notifications with partial=true and texts
\* f1, f1 f2, ..., f1..fn, then exactly one with complete=true and text
\* f1..fn, and the promise resolves with f1..fn.
C15_FragmentsThenDone ==
    LET frags == UpstreamFragments
        total == Flatten(frags)
        n     == Len(frags)
    IN
    (/\ connected
     /\ outcome = "done_line"
     /\ \A i \in 1..n : JSONParse(LinesRead[i]).response = frags[i]
     /\ LinesRead[n + 1] = <<"{", "D", "}">>)
    => /\ Notifications =
              [k \in 1..(n + 1) |->
                  IF k <= n
                  THEN StreamingResponse(Flatten(SubSeq(frags, 1, k)),
                                         TRUE, FALSE)
                  ELSE StreamingResponse(total, FALSE, TRUE)]
       /\ resolved = <<total>>

\* C15 witness: two fragment lines and the done line were relayed
C15_Witness ==
    /\ connected
    /\ outcome = "done_line"
    /\ LinesRead = << <<"{", "a", "}">>, <<"{", "b", "}">>, <<"{", "D", "}">> >>
    /\ TextsOf(Notifications) = << <<"a">>, <<"a", "b">>, <<"a", "b">> >>
    /\ resolved = << <<"a", "b">> >>

-----------------------------------------------------------------------------
(* Properties of the SSE relay: framing *)

\* the non-blank lines of everything read so far, taken as one piece
SseLinesRead == SseLines(sseConsumed)

\* what the loop yields when the bytes read so far arrive as one chunk
SseWhole == SseProcessLines(SseLinesRead, <<>>, <<>>)

\* the relay returned a value (it did not throw)
SseCompleted == sseOutcome \in {"done_line", "stream_end"}

\* C12: the SSE relay carries an unfinished trailing line over to the next
\* chunk, so the text it returns is the text of the byte stream whatever the
\* chunk boundaries were.
C12_SseChunkingIndependent ==
    SseCompleted => sseReturned = <<SseWhole.full>>

\* the contents of the data lines before the first sentinel
RECURSIVE SseDeltas(_)
SseDeltas(lines) ==
    IF lines = <<>> \/ Head(lines) = DoneLine
    THEN <<>>
    ELSE <<SseContent(Head(lines))>> \o SseDeltas(Tail(lines))

\* C16: when every read returns whole lines, data lines with deltas d1..dn
\* followed by the sentinel yield n notifications with partial=true and
\* texts d1, d1 d2, ..., then exactly one with complete=true and text
\* d1..dn, which is the returned value.
C16_SseDeltasThenDone ==
    LET deltas == SseDeltas(SseLinesRead)
        n      == Len(deltas)
        total  == Flatten(deltas)
    IN
    (/\ ~sseTorn
     /\ sseOutcome = "done_line"
     /\ \A i \in 1..n : /\ Head(SseLinesRead[i]) = DataPrefix
                        /\ deltas[i] # <<>>)
    => /\ sseOut =
              [k \in 1..(n + 1) |->
                  IF k <= n
                  THEN StreamingResponse(Flatten(SubSeq(deltas, 1, k)),
                                         TRUE, FALSE)
                  ELSE StreamingResponse(total, FALSE, TRUE)]
       /\ sseReturned = <<total>>

\* C16 witness: two deltas and the sentinel were relayed from whole-line reads
C16_Witness ==
    /\ ~sseTorn
    /\ sseOutcome = "done_line"
    /\ SseLinesRead = << <<DataPrefix, "{", "a", "}">>,
                         <<DataPrefix, "{", "b", "}">>,
                         DoneLine >>
    /\ TextsOf(sseOut) = << <<"a">>, <<"a", "b">>, <<"a", "b">> >>
    /\ sseReturned = << <<"a", "b">> >>

-----------------------------------------------------------------------------
(* Properties of concurrent turns *)

IsTurnStreaming(x) == IsStreaming(x.e)

\* the turns of the streaming_response events on socket s, in order
StreamingTurns(s) ==
    LET ev == SelectSeq(cOut[s], IsTurnStreaming)
    IN  [k \in 1..Len(ev) |-> ev[k].turn]

\* C19: when two send_message events are accepted on one socket before the
\* first turn has ended, the streaming_response events of the two turns are
\* not interleaved on that socket: between two events of one turn there is
\* no event of the other.
C19_TurnsNotInterleaved ==
    \A s \in Sockets :
        LET turns == StreamingTurns(s) IN
        \A i, j, k \in 1..Len(turns) :
            (i < j /\ j < k /\ turns[i] = turns[k]) => turns[j] = turns[i]

\* the newline-terminated lines turn t has read from its own body
ConcLinesRead(t) == Front(SplitNL(cConsumed[t]))

\* the text of turn t run alone on the bytes it has read
ConcAlone(t) == Flatten(FragmentsOf(ConcLinesRead(t)))

\* C20: turns in flight at once share no relay state: under every
\* interleaving the buffer and the accumulated text of a turn are those of
\* its own byte stream, they change only in a step that reads that stream,
\* and the text a turn resolves with is the text it would have run alone.
C20_TurnsShareNothing ==
    /\ [](\A t \in Turns :
            /\ cFull[t] = ConcAlone(t)
            /\ cOutcome[t] # "done_line" =>
                   cBuffer[t] = Last(SplitNL(cConsumed[t]))
            /\ cOutcome[t] \in {"done_line", "stream_end"} =>
                   cResolved[t] = <<ConcAlone(t)>>)
    /\ [][\A t \in Turns :
            cConsumed'[t] = cConsumed[t] =>
                (cBuffer'[t] = cBuffer[t] /\ cFull'[t] = cFull[t])]_vars

\* C20 witness: two turns on one socket are reading, each with an unfinished
\* line of its own in its buffer, one of them with text accumulated
C20_Witness ==
    /\ cSock[1] = cSock[2]
    /\ cPc[1] = "read" /\ cPc[2] = "read"
    /\ cBuffer[1] = <<"{">>
    /\ cBuffer[2] = <<"{", "a">>
    /\ cFull[1] = <<"a">>
    /\ cFull[2] = <<>>

-----------------------------------------------------------------------------
(* Properties: outbound calls, the SSE catch, the local-fallback relay *)

\* C21: one invocation of the NDJSON relay makes exactly one outbound
\* network call: never more than one request is sent, and a settled
\* invocation has sent exactly one.
C21_OneOutboundCall ==
    /\ probeCalls + generateCalls <= 1
    /\ Settled => probeCalls + generateCalls = 1

\* the SSE relay ended by an upstream failure
SseFailed == sseOutcome \in {"http_error", "fetch_error", "read_error"}

\* C22: in the SSE relay an upstream failure does not escape to the caller:
\* the promise resolves with a text, and that text is delivered in one
\* streaming_response with complete=true that ends the events of the turn.
C22_SseFailureAbsorbed ==
    SseFailed =>
        /\ ~sseUnhandled
        /\ Len(sseReturned) = 1
        /\ sseOut # <<>>
        /\ IsComplete(Last(sseOut))
        /\ Last(sseOut).text = sseReturned[1]

\* the streaming_response events of the turn of the local-fallback relay
LocalNotifications == SelectSeq(lOut, IsStreaming)

\* C23: in the local-fallback relay at most one streaming_response with
\* complete=true is emitted per turn and nothing is emitted after it.
C23_LocalCompleteIsLast ==
    \A i \in 1..Len(LocalNotifications) :
        IsComplete(LocalNotifications[i]) => i = Len(LocalNotifications)

\* C24: in the local-fallback relay the length of the text is non-decreasing
\* across the streaming_response events of a turn.
C24_LocalTextLengthMonotone ==
    \A i \in 1..(Len(LocalNotifications) - 1) :
        Len(LocalNotifications[i].text) <= Len(LocalNotifications[i + 1].text)

\* C25: in the SSE variants a message that is empty or longer than the
\* 2000-character limit is rejected before any upstream call is made and is
\* answered by an 'error' event.
C25_SseInvalidMessageRejected ==
    (MessageBlank(sseMsg) \/ MessageTooLong(sseMsg)) =>
        /\ sseCalls = 0
        /\ ssePc = "idle"
        /\ sseMsg # NoMsg => (sseOut # <<>> /\ Last(sseOut) = ErrorEvent)

-----------------------------------------------------------------------------
(* Properties of the registries *)

\* C26: the keys of activeConnections are the sockets that were admitted
\* (not refused by the rate limit, not blocked) and whose disconnect has not
\* been handled yet; after its disconnect, by the client, a kick or a block,
\* an id is absent, and ids are not used again.
C26_ActiveAreAdmittedAndConnected ==
    /\ rActive = rAdmitted \cap rConnected
    /\ \A s \in rActive : s < rNext

\* C26 witness: two sockets were admitted, the first has disconnected and
\* only the second is a key
C26_Witness ==
    /\ rAdmitted = {1, 2}
    /\ rConnected = {2}
    /\ rActive = {2}
    /\ rTimers = {}

\* C27: the rate-limit record of an IP is cleared on disconnect: a socket
\* that disconnects is removed from the sockets of the record and
\* connectionCount is decremented, which keeps connectionCount equal to the
\* number of connected sockets of the IP.
C27_DisconnectClearsCounters ==
    [][\A s \in rConnected :
          (s \notin rConnected' /\ rRecord.present /\ s \in rRecord.sockets)
          => /\ s \notin rRecord'.sockets
             /\ rRecord'.connectionCount = rRecord.connectionCount - 1]_vars

\* C28: for every IP at most maxMessages send_message events are accepted by
\* checkSocketRateLimit within one rate window, under every interleaving of
\* connections, messages, window resets and runs of the cleanup.
C28_AtMostMaxMessagesPerWindow == rAccepted <= MaxMessages

\* C29: exceeding the connection limit of an IP only refuses the connection
\* that exceeds it: no send_message of a socket that was admitted is refused
\* on account of the connection limit.
C29_AdmittedSocketsKeepSending == rLastSend # "connections"

\* the record of the IP refuses every new connection
OverConnectionLimit ==
    rRecord.present /\ rRecord.connectionCount > MaxConnections

\* C30: an IP that was refused for exceeding the connection limit and whose
\* sockets have all disconnected is eventually admitted again, whatever the
\* timing of its attempts: its record eventually stops refusing connections.
C30_RefusedIPAdmittedAgain ==
    (rLastConnect = "connections" /\ rConnected = {}) ~> ~OverConnectionLimit

-----------------------------------------------------------------------------
(* Properties of the admin controls of src/server.js *)

\* the socket has not been let in: it is in no registry, was not welcomed
\* and, while it is still connected, its disconnection is pending
KeptOut(s, active, handlers, out, connectedSet, timers) ==
    /\ s \notin active
    /\ s \notin handlers
    /\ \A i \in 1..Len(out[s]) : out[s][i].e.ev # "welcome"
    /\ s \in connectedSet => s \in timers

\* C31: a socket whose IP is a key of blockedIPs or whose id is a key of
\* blockedUsers when it connects is not added to activeConnections, is not
\* sent 'welcome', gets no send_message handler (so it starts no turn and
\* causes no upstream call) and its disconnection is pending until it is
\* disconnected; and a socket that was not given its handlers when it
\* connected stays out for good.
C31_BlockedSocketKeptOut ==
    /\ [][\A s \in AdminIds :
            (/\ s \notin aSeen
             /\ s \in aSeen'
             /\ (IPOf(s) \in aBlockedIPs \/ s \in aBlockedUsers))
            => KeptOut(s, aActive', aHandlers', aOut', aConnected', aTimers')
         ]_vars
    /\ [](\A s \in aSeen :
            s \notin aHandlers
            => /\ KeptOut(s, aActive, aHandlers, aOut, aConnected, aTimers)
               /\ aTurns[s] = 0)
    /\ [][\A s \in aSeen : s \in aHandlers' => s \in aHandlers]_vars

\* C31 witness: a1 was blocked while connected, which blocked its IP; a2
\* then connected from that IP, was sent the block message only and has been
\* disconnected by the timer
C31_Witness ==
    /\ "ipA" \in aBlockedIPs
    /\ "a2" \notin aBlockedUsers
    /\ "a2" \in aSeen
    /\ "a2" \notin aConnected
    /\ "a2" \notin aTimers
    /\ aOut["a2"] = <<AdminChat>>

\* the step ran this admin operation
Runs(op) == aOps' = aOps + 1 /\ aLast'.op = op

\* C32: blockUser(t) returns true and leaves t a key of blockedUsers. When t
\* is a connected socket registered in activeConnections, its IP becomes a
\* key of blockedIPs and the disconnection of the socket is set for later:
\* when the timer fires the socket is disconnected and is no key of
\* activeConnections. When t is not connected, blockedIPs and
\* activeConnections are as they were.
C32_BlockUserEffects ==
    /\ [][Runs("blockUser") =>
            LET t == aLast'.target IN
            /\ aLast'.ret
            /\ t \in aBlockedUsers'
            /\ (t \in aConnected /\ t \in aActive)
               => /\ IPOf(t) \in aBlockedIPs'
                  /\ t \in aTimers'
                  /\ aActive' = aActive
            /\ t \notin aConnected
               => /\ aBlockedIPs' = aBlockedIPs
                  /\ aActive' = aActive
                  /\ aTimers' = aTimers
         ]_vars
    /\ [][\A s \in aTimers :
            s \notin aTimers' => (s \notin aConnected' /\ s \notin aActive')
         ]_vars

\* C32 witness: the connected client a1 has just been blocked: its id and
\* its IP are blocked and its disconnection is pending
C32_Witness ==
    /\ aLast = Ran("blockUser", "a1", TRUE, "socket", Lists({}, {}))
    /\ "a1" \in aConnected
    /\ "a1" \in aActive
    /\ "a1" \in aTimers
    /\ aBlockedUsers = {"a1"}
    /\ aBlockedIPs = {"ipA"}

\* kickUser or blockUser has returned true for the connected socket and has
\* set its disconnection for later; the timer has not fired yet
Ejected(s) == s \in aConnected /\ s \in aHandlers /\ s \in aTimers

\* C33: once blockUser or kickUser has returned true for a connected socket,
\* a send_message from that socket starts no turn and causes no call of
\* generateResponse, the messages that arrive before the deferred
\* disconnect has run included.
C33_EjectedSocketStartsNoTurn ==
    [][\A s \in AdminIds :
         (Ejected(s) /\ aTurns'[s] # aTurns[s])
         => (aCalls' = aCalls /\ aTurn'[s] = aTurn[s])]_vars

\* C34: unblockUser(t) returns true exactly when t was a key of blockedUsers
\* or of blockedIPs. Afterwards t is a key of neither, every other key of
\* both maps and activeConnections are as they were; when it returns false
\* nothing has changed and no history entry was added.
C34_UnblockUserEffects ==
    [][Runs("unblockUser") =>
         LET t == aLast'.target IN
         /\ aLast'.ret = (t \in aBlockedUsers \/ t \in aBlockedIPs)
         /\ t \notin aBlockedUsers'
         /\ t \notin aBlockedIPs'
         /\ aBlockedUsers' \ {t} = aBlockedUsers \ {t}
         /\ aBlockedIPs' \ {t} = aBlockedIPs \ {t}
         /\ aActive' = aActive
         /\ ~aLast'.ret
            => /\ aBlockedUsers' = aBlockedUsers
               /\ aBlockedIPs' = aBlockedIPs
               /\ aHistory' = aHistory
               /\ aConnected' = aConnected
               /\ aTimers' = aTimers
               /\ aOut' = aOut
      ]_vars

\* C34 witness: the id of a1, blocked while a1 was connected, has been
\* unblocked: the call returned true and the entry of the IP of a1 is still
\* in blockedIPs
C34_Witness ==
    /\ aLast.op = "unblockUser"
    /\ aLast.target = "a1"
    /\ aLast.ret
    /\ aLast.before = Lists({"a1"}, {"ipA"})
    /\ aBlockedUsers = {}
    /\ aBlockedIPs = {"ipA"}

\* C35: blocking then unblocking is a round trip: when blockUser(s) on a
\* connected socket s is followed by unblockUser(s), blockedUsers and
\* blockedIPs are what they were before the block (so that the IP of s is
\* let in again).
C35_BlockUnblockRoundTrip ==
    [][(/\ aLast.op = "blockUser"
        /\ aLast.target \in aConnected \cap aActive
        /\ Runs("unblockUser")
        /\ aLast'.target = aLast.target)
       => /\ aBlockedUsers' = aLast.before.users
          /\ aBlockedIPs' = aLast.before.ips]_vars

\* C36: entries are added to or removed from blockedUsers and blockedIPs
\* only by an operation that a client which presented ADMIN_SECRET has run
\* (the admin events of a socket that presented it).
C36_BlockListsChangedByAdminOnly ==
    [][(aBlockedUsers' # aBlockedUsers \/ aBlockedIPs' # aBlockedIPs)
       => aLast'.by = "socket"]_vars

\* C37: on every socket, no streaming_response with complete = true is
\* followed by a partial notification of a turn that was in flight when it
\* was emitted: every later partial notification belongs to a turn whose
\* send_message was handled after it.
C37_CompleteEndsTheTurn ==
    \A s \in AdminIds :
        \A i, j \in 1..Len(aOut[s]) :
            (i < j /\ IsComplete(aOut[s][i].e) /\ IsSnapshot(aOut[s][j].e))
            => \E k \in (i + 1)..(j - 1) :
                   aOut[s][k] = Of(aOut[s][j].turn, ChatMessage)

-----------------------------------------------------------------------------
(* Properties of chatHistory *)

\* C38: after every call of addToHistory the length of chatHistory is at
\* most MAX_HISTORY_SIZE; the new entry is the last element; the entries
\* before it are the most recent ones of the history as it was, in the
\* order they had, so that the entries removed are the oldest.
C38_HistoryBounded ==
    [][hAdds' = hAdds + 1 =>
         LET max == HistoryMax(hVariant)
             kept == Len(hHistory') - 1
         IN
         /\ Len(hHistory') <= max
         /\ Len(hHistory') = (IF Len(hHistory) + 1 > max THEN max
                              ELSE Len(hHistory) + 1)
         /\ hHistory'[Len(hHistory')].id = hEntry'
         /\ \A i \in 1..kept :
                hHistory'[i] = hHistory[Len(hHistory) - kept + i]
      ]_vars

\* C38 witness: two entries were added to the full history of the first
\* program: the two oldest are gone and the history is full
C38_Witness ==
    /\ hVariant = "server"
    /\ hAdds = 2
    /\ Len(hHistory) = MAX_HISTORY_SIZE
    /\ hHistory[1].id = 3
    /\ hHistory[MAX_HISTORY_SIZE].id = MAX_HISTORY_SIZE + 2

====
